---------------------------- MODULE Spec2Model ----------------------------
(***************************************************************************)
(* A model of the catalogue harvester of scrape_melbet_games.py: the retry *)
(* engine (_http_get_json_with_retries / _get_json_with_retries), the      *)
(* category resolver and the pagination walker with its dedup accumulator  *)
(* and cap (scrape_games_http / scrape_games), the part of main that       *)
(* writes the output file, and the launcher's demo-link cache and wallet   *)
(* (serve_launcher).                                                       *)
(*                                                                         *)
(* Conventions.  Optional[int] is a sequence: <<>> is None and <<n>> is    *)
(* the integer n.  A JSON value that the code coerces with _to_int is a    *)
(* record [t, n, s]: its type tag, its number (int, bool as 0/1, float in  *)
(* tenths) and its characters (str).  Times are integers, in ticks of a    *)
(* quarter of a second (0.5 s = 2 ticks).                                  *)
(***************************************************************************)
EXTENDS Integers, Sequences, FiniteSets, TLC

(***************************** bounds **************************************)
\* the longest upstream feed (raw items over all pages) of a walk scenario
MaxItems == 3
\* the largest retry budget of a retry scenario
MaxRetries == 3
\* the largest number of subcategory entries of a drawn options payload
MaxSubs == 2
\* the largest global cap of a walk scenario
MaxCap == 2
\* the longest list given to _dedupe on its own
MaxLen == 3

(***************************** values **************************************)
None == <<>>

Some(n) == <<n>>

Min(a, b) == IF a <= b THEN a ELSE b

Pow2(k) == 2 ^ k

Range(s) == {s[i] : i \in DOMAIN s}

\* s[:n] and s[n:] of Python, for n >= 0
Take(s, n) == SubSeq(s, 1, Min(n, Len(s)))

Drop(s, n) == SubSeq(s, Min(n, Len(s)) + 1, Len(s))

JInt(n) == [t |-> "int", n |-> n, s |-> <<>>]

JStr(chars) == [t |-> "str", n |-> 0, s |-> chars]

JNull == [t |-> "null", n |-> 0, s |-> <<>>]

JBool(b) == [t |-> "bool", n |-> IF b THEN 1 ELSE 0, s |-> <<>>]

\* a float, given in tenths: JFloat(57) is 5.7
JFloat(tenths) == [t |-> "float", n |-> tenths, s |-> <<>>]

\* a JSON object or array: int() raises TypeError on it
JObj == [t |-> "obj", n |-> 0, s |-> <<>>]

Digits == <<"0", "1", "2", "3", "4", "5", "6", "7", "8", "9">>

IsDigit(c) == \E i \in DOMAIN Digits : Digits[i] = c

DigitVal(c) == (CHOOSE i \in DOMAIN Digits : Digits[i] = c) - 1

RECURSIVE DigitsValue(_, _)
\* the value of a non-empty string of digits, most significant first
DigitsValue(chars, acc) ==
  IF chars = <<>> THEN acc
  ELSE DigitsValue(Tail(chars), acc * 10 + DigitVal(Head(chars)))

RECURSIVE StripLeft(_)
StripLeft(chars) ==
  IF chars # <<>> /\ Head(chars) = " " THEN StripLeft(Tail(chars)) ELSE chars

RECURSIVE StripRight(_)
StripRight(chars) ==
  IF chars # <<>> /\ chars[Len(chars)] = " "
  THEN StripRight(SubSeq(chars, 1, Len(chars) - 1))
  ELSE chars

\* int(str): surrounding blanks are stripped, one sign is allowed, then at
\* least one digit and nothing but digits; anything else raises ValueError,
\* which _to_int turns into None.  (Strings of the model hold no "_".)
ParseIntStr(chars) ==
  LET body == StripRight(StripLeft(chars))
      signed == body # <<>> /\ Head(body) \in {"-", "+"}
      digits == IF signed THEN Tail(body) ELSE body
  IN IF digits # <<>> /\ \A i \in DOMAIN digits : IsDigit(digits[i])
     THEN Some(IF signed /\ Head(body) = "-"
               THEN 0 - DigitsValue(digits, 0)
               ELSE DigitsValue(digits, 0))
     ELSE None

\* int(float) truncates toward zero
TruncTenths(tenths) ==
  IF tenths >= 0 THEN tenths \div 10 ELSE 0 - ((0 - tenths) \div 10)

_to_int(v) ==
  CASE v.t = "null" -> None
    [] v.t = "int" -> Some(v.n)
    [] v.t = "bool" -> Some(v.n)
    [] v.t = "float" -> Some(TruncTenths(v.n))
    [] v.t = "str" -> ParseIntStr(v.s)
    [] OTHER -> None

\* a cap test that lets the count equal to the cap through
_cap_reached_strict(current, cap) == cap > 0 /\ current > cap

\* a cap test that forgets that a cap of 0 or less means no cap
_cap_reached_NoSign(current, cap) == current >= cap

\* max_games > 0 and current >= max_games
_cap_reached(current, cap) == cap > 0 /\ current >= cap

(************************* upstream payloads *******************************)
\* One entry of a listing's "games" array: an object with an id and a name,
\* or (obj = FALSE) something that is not an object.
RawGame(id, name) == [obj |-> TRUE, id |-> id, name |-> name]

NotAnObject == [obj |-> FALSE, id |-> JNull, name |-> ""]

\* A parsed JSON body.  kind "object" is a dict, whose "games" (or, for the
\* options endpoint, "subcategories") is a list when is_list holds; kind
\* "falsy" is null, 0, "", [] or {}; kind "truthy" is any other value that
\* is not a dict (a non-empty array, a number, true).
Body(items) == [kind |-> "object", is_list |-> TRUE, items |-> items]

NoListBody == [kind |-> "object", is_list |-> FALSE, items |-> <<>>]

FalsyBody == [kind |-> "falsy", is_list |-> FALSE, items |-> <<>>]

TruthyNonDictBody == [kind |-> "truthy", is_list |-> FALSE, items |-> <<>>]

EmptyPage == Body(<<>>)

\* Game(id=..., name=str(g.get("name") or ""), ...): the record keeps the
\* identity and one payload field; the other fields are copied the same way.
Game(id, name) == [id |-> id, name |-> name]

RECURSIVE ParseItems_StopAtInvalid(_)
\* a loop that gives up the page at its first entry without a valid id
ParseItems_StopAtInvalid(games) ==
  IF games = <<>> THEN <<>>
  ELSE LET g == Head(games)
           game_id == IF g.obj THEN _to_int(g.id) ELSE None
       IN IF game_id = None
          THEN <<>>
          ELSE <<Game(game_id[1], g.name)>>
                 \o ParseItems_StopAtInvalid(Tail(games))

RECURSIVE ParseItems(_)
\* the loop of _parse_games: entries that are not objects or whose id does
\* not coerce are skipped, the others are appended in order
ParseItems(games) ==
  IF games = <<>> THEN <<>>
  ELSE LET g == Head(games)
           game_id == IF g.obj THEN _to_int(g.id) ELSE None
       IN IF game_id = None
          THEN ParseItems(Tail(games))
          ELSE <<Game(game_id[1], g.name)>> \o ParseItems(Tail(games))

\* (api_json or {}).get("games") raises AttributeError on a truthy value
\* that is not a dict
ParseRaises(api_json) == api_json.kind = "truthy"

_parse_games(api_json) ==
  IF api_json.kind = "object" /\ api_json.is_list
  THEN ParseItems(api_json.items)
  ELSE <<>>

RECURSIVE DedupeFrom(_, _)
DedupeFrom(games, seen) ==
  IF games = <<>> THEN <<>>
  ELSE IF Head(games).id \in seen
       THEN DedupeFrom(Tail(games), seen)
       ELSE <<Head(games)>> \o DedupeFrom(Tail(games), seen \cup {Head(games).id})

\* an accumulator in which the last copy of an id wins
_dedupe_KeepLast(games) ==
  LET reverse(q) == [i \in DOMAIN q |-> q[Len(q) + 1 - i]]
  IN reverse(DedupeFrom(reverse(games), {}))

_dedupe(games) == DedupeFrom(games, {})

(***************************** category resolver ***************************)
\* the reserved pseudo-category ids skipped by "all categories"
Sentinel998 == 998

Sentinel999 == 999

\* one entry of the options payload's "subcategories"
RawSub(id) == [obj |-> TRUE, id |-> id]

SubNotAnObject == [obj |-> FALSE, id |-> JNull]

\* a filter that forgets the reserved ids
KeepCategory_NoSentinels(cid) == cid # None /\ cid[1] > 0

\* cid is not None and cid > 0 and cid not in (998, 999)
KeepCategory(cid) ==
  /\ cid # None
  /\ cid[1] > 0
  /\ cid[1] \notin {Sentinel998, Sentinel999}

RECURSIVE SortedSeq(_)
\* sorted(set): the elements of a finite set of integers, ascending
SortedSeq(S) ==
  IF S = {} THEN <<>>
  ELSE LET m == CHOOSE x \in S : \A y \in S : x <= y
       IN <<m>> \o SortedSeq(S \ {m})

\* a resolver that falls back to the unfiltered walk when the options name
\* no category
ResolveAll_FallsBackUnfiltered(options) ==
  LET subs == IF options.kind = "object" /\ options.is_list
              THEN options.items ELSE <<>>
      ids == {_to_int(subs[i].id)[1] :
                i \in {j \in DOMAIN subs :
                         subs[j].obj /\ KeepCategory(_to_int(subs[j].id))}}
      sorted == SortedSeq(ids)
  IN IF ids = {} THEN <<None>> ELSE [i \in DOMAIN sorted |-> Some(sorted[i])]

\* the ids list built by the loop over subs, then sorted(set(ids))
ResolveAll(options) ==
  LET subs == IF options.kind = "object" /\ options.is_list
              THEN options.items ELSE <<>>
      ids == {_to_int(subs[i].id)[1] :
                i \in {j \in DOMAIN subs :
                         subs[j].obj /\ KeepCategory(_to_int(subs[j].id))}}
      sorted == SortedSeq(ids)
  IN [i \in DOMAIN sorted |-> Some(sorted[i])]

\* a sorted, duplicate-free list in place of the caller's
ResolveExplicit_SortedSet(ids) ==
  IF ids # None /\ Len(ids[1]) > 0
  THEN LET sorted == SortedSeq(Range(ids[1]))
       IN [i \in DOMAIN sorted |-> Some(sorted[i])]
  ELSE <<None>>

\* elif category_ids is not None: an empty list is walked as it is, that
\* is, not at all
ResolveExplicit_EmptyIsNoWalk(ids) ==
  IF ids # None THEN [i \in DOMAIN ids[1] |-> Some(ids[1][i])] ELSE <<None>>

\* elif category_ids: ... else: [None]
ResolveExplicit(ids) ==
  IF ids # None /\ Len(ids[1]) > 0
  THEN [i \in DOMAIN ids[1] |-> Some(ids[1][i])]
  ELSE <<None>>

(***************************** scenarios ***********************************)
\* The runs explored: every initial state is a call of scrape_games_http or
\* scrape_games with one configuration, against one upstream.
Modes == {"http", "browser"}

Limits == {1, 2}

\* the ids a listing entry of a feed may carry: 1, 2 and "x" (not an id)
IdPool == {JInt(1), JInt(2), JStr(<<"x">>)}

\* the name of the entry at a position of the feed: every entry served has
\* its own, so that the copy that was kept can be told from a later one
Names == <<"a", "b", "c", "d", "e", "f">>

SeqsUpTo(S, n) == UNION {[1..k -> S] : k \in 0..n}

Feeds == {[i \in DOMAIN ids |-> RawGame(ids[i], Names[i])] :
            ids \in SeqsUpTo(IdPool, MaxItems)}

RECURSIVE Pages(_, _)
\* a list of entries served in pages of lim entries, the last one shorter
Pages(items, lim) ==
  IF items = <<>> THEN <<>>
  ELSE <<Body(Take(items, lim))>> \o Pages(Drop(items, lim), lim)

\* category 1 lists the first `split` entries of the feed, category 2 the
\* others, and the unfiltered listing all of them
World(feed, split, lim) ==
  (None :> Pages(feed, lim))
    @@ (Some(1) :> Pages(Take(feed, split), lim))
    @@ (Some(2) :> Pages(Drop(feed, split), lim))

NoOptions == Body(<<>>)

Scenario(m, cats, all, lim, cap, slp, r, b, up, opts) ==
  [mode |-> m, category_ids |-> cats, all_categories |-> all, limit |-> lim,
   max_games |-> cap, sleep_s |-> slp, retries |-> r, backoff_s |-> b,
   upstream |-> up, options_body |-> opts, paging |-> "ends",
   landing |-> "ok", brand_ids |-> None]

\* walks over every feed: unfiltered, over categories 1 and 2 in both
\* orders, and over category 1 listed twice
WalkScenarios ==
  { Scenario(m, sel[1], FALSE, lim, cap, 0, 0, 1, World(feed, sel[2], lim),
             NoOptions) :
      m \in Modes, lim \in Limits, cap \in 0..MaxCap,
      feed \in Feeds,
      sel \in { <<None, 0>>, <<Some(<<1, 1>>), MaxItems>> }
                \cup { <<Some(<<1, 2>>), k>> : k \in 0..MaxItems }
                \cup { <<Some(<<2, 1>>), k>> : k \in 1..MaxItems } }

\* bodies that are not well-formed listings, and pages that are missing
QuirkBodies ==
  { EmptyPage, NoListBody, FalsyBody, TruthyNonDictBody,
    Body(<<NotAnObject, RawGame(JInt(1), "a")>>),
    Body(<<RawGame(JNull, "a")>>),
    Body(<<RawGame(JStr(<<"1">>), "c"), RawGame(JInt(1), "d")>>),
    Body(<<RawGame(JInt(2), "b")>>) }

QuirkScenarios ==
  { Scenario(m, Some(<<1>>), FALSE, 1, cap, 1, 1, 1, (Some(1) :> pages),
             NoOptions) :
      m \in Modes, cap \in {0 - 1, 0, 1}, pages \in SeqsUpTo(QuirkBodies, 2) }

\* one category of two full pages of distinct games, then nothing, under
\* every retry budget and backoff
RetryWorld(lim) ==
  World(Take(<<RawGame(JInt(1), "a"), RawGame(JInt(2), "b"),
               RawGame(JInt(3), "c"), RawGame(JInt(4), "d")>>, 2 * lim),
        2 * lim, lim)

RetryScenarios ==
  { Scenario(m, Some(<<1>>), all, lim, 0, 1, r, b, RetryWorld(lim),
             Body(<<RawSub(JInt(1))>>)) :
      m \in Modes, all \in BOOLEAN, lim \in Limits, r \in 0..MaxRetries,
      b \in {1, 2, 3} }

\* the ids a subcategory entry may carry
SubPool ==
  { RawSub(JInt(1)), RawSub(JInt(5)), RawSub(JInt(Sentinel998)),
    RawSub(JInt(Sentinel999)), RawSub(JInt(0 - 1)), RawSub(JInt(0)),
    RawSub(JStr(<<"x">>)), RawSub(JStr(<<" ", "5">>)), RawSub(JFloat(57)),
    RawSub(JBool(TRUE)), RawSub(JNull), RawSub(JObj), SubNotAnObject }

\* subcategories = [{id:1},{id:998},{id:999},{id:5},{id:-1},{id:"x"}]
ExampleSubs ==
  <<RawSub(JInt(1)), RawSub(JInt(Sentinel998)),
    RawSub(JInt(Sentinel999)), RawSub(JInt(5)), RawSub(JInt(0 - 1)),
    RawSub(JStr(<<"x">>))>>

OptionsBodies ==
  {Body(subs) : subs \in SeqsUpTo(SubPool, MaxSubs) \cup {ExampleSubs}}
    \cup {NoListBody, FalsyBody, TruthyNonDictBody}

\* categories 1 and 5 list one game each
ResolveWorld ==
  (Some(1) :> <<Body(<<RawGame(JInt(1), "a")>>)>>)
    @@ (Some(5) :> <<Body(<<RawGame(JInt(2), "b")>>)>>)

ResolveScenarios ==
  { Scenario(m, cats, TRUE, 1, 0, 0, 0, 1, ResolveWorld, opts) :
      m \in Modes, cats \in {None, Some(<<5, 1>>)}, opts \in OptionsBodies }

\* an upstream that wraps the offset around the end of a listing, and so
\* serves the same pages again and again: category 1 has one page or two
LoopWorlds ==
  { (Some(1) :> <<Body(<<RawGame(JInt(1), "a")>>)>>),
    (Some(1) :> <<Body(<<RawGame(JInt(1), "a")>>),
                  Body(<<RawGame(JInt(2), "b")>>)>>) }

LoopScenarios ==
  { [Scenario(m, Some(<<1>>), FALSE, 1, cap, 0, 0, 1, up, NoOptions)
       EXCEPT !.paging = "repeats"] :
      m \in Modes, cap \in {0, 2}, up \in LoopWorlds }

\* page0 = [{1, "A"}, {2, "B"}], page1 = [], limit = 2, cap = 0
RoundTripWorld ==
  (Some(1) :> <<Body(<<RawGame(JInt(1), "A"), RawGame(JInt(2), "B")>>),
                EmptyPage>>)

\* ... with a negative, no and a half-second inter-page delay, the landing
\* page up or down
RoundTripScenarios ==
  { [Scenario(m, Some(<<1>>), FALSE, 2, 0, slp, 0, 1, RoundTripWorld,
              NoOptions) EXCEPT !.landing = l] :
      m \in Modes, slp \in {0 - 1, 0, 2}, l \in {"ok", "down"} }

\* "all categories" with the landing page down
LandingDownScenarios ==
  { [Scenario(m, None, TRUE, 1, 0, 0, 1, 1, ResolveWorld,
              Body(<<RawSub(JInt(1))>>)) EXCEPT !.landing = "down"] :
      m \in Modes }

\* the unfiltered listing serves games 1 and 2, a page each
SelectionWorld ==
  World(<<RawGame(JInt(1), "a"), RawGame(JInt(2), "b")>>, 1, 1)

\* no category list and an empty one, with no brand filter, an empty one
\* and the brands 3 and 7
SelectionScenarios ==
  { [Scenario(m, cats, FALSE, 1, 0, 0, 0, 1, SelectionWorld, NoOptions)
       EXCEPT !.brand_ids = b] :
      m \in Modes, cats \in {None, Some(<<>>)},
      b \in {None, Some(<<>>), Some(<<3, 7>>)} }

Scenarios ==
  WalkScenarios \cup QuirkScenarios \cup RetryScenarios \cup ResolveScenarios
    \cup LoopScenarios \cup RoundTripScenarios \cup LandingDownScenarios
    \cup SelectionScenarios

\* the page requests after which a run is no longer followed: more than any
\* walk needs over an upstream whose listings end
MaxRequests == 2 * (MaxItems + 1) + 3

(***************************** state ***************************************)
VARIABLES
  \* the run configuration (arguments of scrape_games_http / scrape_games)
  mode,            \* "http" (scrape_games_http) or "browser" (scrape_games)
  category_ids,    \* Optional[List[int]]: None, or <<list>>
  all_categories,
  brand_ids,       \* Optional[List[int]]: None, or <<list>>
  limit,
  max_games,
  sleep_s,
  retries,
  backoff_s,
  \* the upstream
  upstream,        \* category -> the bodies it serves at offsets 0, limit, ...
  options_body,    \* the body of the options endpoint
  paging,          \* past a listing's last page: "ends" or "repeats"
  landing,         \* the landing page <base>/<lang>/slots: "ok" or "down"
  \* the run
  pc,              \* where the run stands
  caller,          \* who called the retry engine: "options" or "games"
  attempt,         \* the engine's loop variable
  last_err,        \* the engine's last_err (None as "")
  api_json,        \* the value the engine returned
  resolved_category_ids,
  cat_idx,         \* position of the for loop in resolved_category_ids
  offset,
  page_games,
  collected,
  interrupted,     \* a KeyboardInterrupt (SIGINT) has been delivered
  error,           \* the exception that ended the run: its type and cause
  result,          \* the list the scrape function returned
  output,          \* the file main wrote: None, or <<games>>
  \* history, for stating the properties
  requests,        \* the API requests issued, in order
  tries,           \* attempts made by the current engine call
  waited,          \* the waits of the current engine call, in order
  last_reply,      \* the upstream's reply to the latest attempt
  served,          \* the listing entries received so far, in order
  warmups,         \* session-establishment requests (warm-up GET, page.goto)
  slept,           \* the inter-page delays taken, in order
  \* the launcher (serve_launcher)
  cache,           \* Dict[int, str]: game id -> None (no entry), or <<link>>
  wallet,          \* the Wallet object: [balance]
  handler,         \* the handler threads: where each stands, and its locals
  last_update      \* history: the amount of the latest Wallet.update

cfgvars == <<mode, category_ids, all_categories, brand_ids, limit, max_games,
             sleep_s, retries, backoff_s, upstream, options_body, paging,
             landing>>

enginevars == <<caller, attempt, last_err, api_json, tries, waited, last_reply>>

walkvars == <<resolved_category_ids, cat_idx, offset, page_games, collected>>

endvars == <<interrupted, error, result, output>>

histvars == <<requests, served, warmups, slept>>

launchervars == <<cache, wallet, handler, last_update>>

runvars == <<cfgvars, pc, enginevars, walkvars, endvars, histvars>>

vars == <<runvars, launchervars>>

NoError == [type |-> "", cause |-> ""]

Raised(type, cause) == [type |-> type, cause |-> cause]

(***************************** upstream ************************************)
\* One transport-level reply to a GET: the network outcome, the HTTP status
\* and what the body text is ("json": the JSON the endpoint serves, "empty",
\* or "garbage": text that is not JSON).
Reply(net, status, text) == [net |-> net, status |-> status, text |-> text]

Replies ==
  { Reply("ok", 200, "json"), Reply("ok", 200, "empty"),
    Reply("ok", 200, "garbage"), Reply("ok", 201, "json"),
    Reply("ok", 500, "json"), Reply("error", 0, "empty"),
    Reply("timeout", 0, "empty") }

\* the listing endpoint: the body for categoriesId = c at the given offset
\* with page size lim; past the last page the list of games is empty, or
\* (paging = "repeats") the pages are served again from the first
ListingBody(c, off, lim) ==
  LET n == IF c \in DOMAIN upstream THEN Len(upstream[c]) ELSE 0
      i == off \div lim
      k == IF paging = "repeats" /\ n > 0 THEN (i % n) + 1 ELSE i + 1
  IN IF k <= n THEN upstream[c][k] ELSE EmptyPage

(***************************** retry engine ********************************)
\* _http_get_text + the try block of _http_get_json_with_retries: "" when
\* the attempt returns json.loads(text), else the last_err it records.
\* urllib raises URLError / TimeoutError on a network failure and HTTPError
\* on a status >= 400; any other status is read like a 200.
HttpAttemptError(reply) ==
  CASE reply.net = "error" -> "URLError"
    [] reply.net = "timeout" -> "TimeoutError"
    [] reply.status >= 400 -> "HTTPError"
    [] reply.text = "empty" -> "empty_response"
    [] reply.text = "garbage" -> "JSONDecodeError"
    [] OTHER -> ""

\* a browser engine that looks at the text only, not at the status
BrowserAttemptError_AnyStatus(reply) ==
  CASE reply.net # "ok" -> "fetch_failed"
    [] reply.text = "empty" -> "status_or_empty"
    [] reply.text = "garbage" -> "JSONDecodeError"
    [] OTHER -> ""

\* _fetch_json_via_page_fetch + the try block of _get_json_with_retries:
\* fetch() rejects on a network failure, and the engine itself checks
\* status == 200 and a non-empty text before json.loads.
BrowserAttemptError(reply) ==
  CASE reply.net # "ok" -> "fetch_failed"
    [] reply.status # 200 \/ reply.text = "empty" -> "status_or_empty"
    [] reply.text = "garbage" -> "JSONDecodeError"
    [] OTHER -> ""

AttemptError(reply) ==
  IF mode = "http" THEN HttpAttemptError(reply) ELSE BrowserAttemptError(reply)

\* backoff_s * (2**attempt)
BackoffDelay(base, k) == base * Pow2(k)

\* a wait taken after every failure, the last one included
SleepsAfterFailure_Always(k, r) == k <= r

\* an engine that retries at once, without a wait
SleepsAfterFailure_Never(k, r) == FALSE

\* if attempt < retries: sleep(...)
SleepsAfterFailure(k, r) == k < r

\* a loop over range(retries + 2)
HasNextAttempt_OneMore(k, r) == k + 1 < r + 2

\* for attempt in range(retries + 1): whether the loop runs again after k
HasNextAttempt(k, r) == k + 1 < r + 1

\* the outcomes of an attempt that are exceptions raised inside the try
\* block; the two others are recorded by an assignment to last_err
IsException(err) == err \notin {"", "empty_response", "status_or_empty"}

\* an engine whose handlers name the transport errors only
EngineCatches_TransportOnly(exc) ==
  exc \in {"HTTPError", "URLError", "TimeoutError"}

\* except (HTTPError, URLError, TimeoutError) / except Exception: every
\* exception is caught but a BaseException such as KeyboardInterrupt
EngineCatches(exc) == exc # "KeyboardInterrupt"

\* an options fetch that gives up is taken for an empty payload
ExhaustedGoesTo_EmptyOptions(who) ==
  IF who = "options" THEN "resolve" ELSE "failed"

\* raise RuntimeError(...) after the loop: neither _get_options(_http) nor
\* the scrape function handles it, whoever called the engine
ExhaustedGoesTo(who) == "failed"

\* the engine is entered: attempt = 0, nothing tried, nothing waited
EnterEngine(who) ==
  /\ caller' = who
  /\ attempt' = 0
  /\ last_err' = ""
  /\ tries' = 0
  /\ waited' = <<>>
  /\ pc' = "attempt"
  /\ UNCHANGED last_reply

\* One attempt of the engine's loop, from the GET to the end of the try
\* statement: the value is returned, or last_err is recorded and the loop
\* goes on to its wait, or past its last iteration to the raise.
Attempt ==
  /\ pc = "attempt"
  /\ \E reply \in Replies :
       LET err == AttemptError(reply) IN
       /\ tries' = tries + 1
       /\ last_reply' = reply
       /\ IF err = ""
          THEN /\ api_json' = IF caller = "options" THEN options_body
                              ELSE ListingBody(resolved_category_ids[cat_idx],
                                               offset, limit)
               /\ pc' = IF caller = "options" THEN "resolve" ELSE "parse"
               /\ UNCHANGED <<last_err, error>>
          ELSE IF IsException(err) /\ ~EngineCatches(err)
          THEN /\ pc' = "failed"
               /\ error' = Raised(err, "")
               /\ UNCHANGED <<last_err, api_json>>
          ELSE /\ last_err' = err
               /\ UNCHANGED api_json
               /\ IF SleepsAfterFailure(attempt, retries)
                  THEN pc' = "backoff" /\ UNCHANGED error
                  ELSE IF HasNextAttempt(attempt, retries)
                       THEN pc' = "attempt" /\ UNCHANGED error
                       ELSE /\ pc' = ExhaustedGoesTo(caller)
                            /\ error' = IF pc' = "failed"
                                         THEN Raised("RuntimeError", last_err')
                                         ELSE error
  /\ attempt' = IF pc' = "attempt" THEN attempt + 1 ELSE attempt
  /\ served' = IF pc' = "parse" /\ api_json'.kind = "object" /\ api_json'.is_list
               THEN served \o api_json'.items ELSE served
  /\ UNCHANGED <<launchervars,
                 cfgvars, caller, waited, walkvars, interrupted, result,
                 output, requests, warmups, slept>>

\* time.sleep / asyncio.sleep of the engine, then the next iteration
Backoff ==
  /\ pc = "backoff"
  /\ waited' = Append(waited, BackoffDelay(backoff_s, attempt))
  /\ IF HasNextAttempt(attempt, retries)
     THEN pc' = "attempt" /\ attempt' = attempt + 1 /\ UNCHANGED error
     ELSE /\ pc' = ExhaustedGoesTo(caller)
          /\ error' = IF pc' = "failed"
                       THEN Raised("RuntimeError", last_err)
                       ELSE error
          /\ UNCHANGED attempt
  /\ UNCHANGED <<launchervars,
                 cfgvars, caller, last_err, api_json, tries, last_reply,
                 walkvars, interrupted, result, output, histvars>>

(***************************** walker **************************************)
RECURSIVE DecimalDigits(_)
\* the decimal digits of n >= 0, most significant first
DecimalDigits(n) ==
  IF n < 10 THEN <<Digits[n + 1]>>
  ELSE Append(DecimalDigits(n \div 10), Digits[(n % 10) + 1])

\* str(n) of an int
Str(n) == IF n < 0 THEN <<"-">> \o DecimalDigits(0 - n) ELSE DecimalDigits(n)

\* a value of a params dict: None, or the text urlencode writes for it
PyNone == [is_none |-> TRUE, text |-> <<>>]

PyStr(chars) == [is_none |-> FALSE, text |-> chars]

RECURSIVE Join(_, _)
\* sep.join(strs)
Join(strs, sep) ==
  IF strs = <<>> THEN <<>>
  ELSE IF Len(strs) = 1 THEN Head(strs)
  ELSE Head(strs) \o sep \o Join(Tail(strs), sep)

\* ",".join(str(x) for x in (brand_ids or [])) if brand_ids else ""
BrandIdsParam(brands) ==
  IF brands # None /\ Len(brands[1]) > 0
  THEN Join([i \in DOMAIN brands[1] |-> Str(brands[1][i])], <<",">>)
  ELSE <<>>

\* the params dict of a page request, for the parameters that vary:
\* "categoriesId": str(cid) if cid is not None else ""
ListingParams(c, off, lim) ==
  [brandIds |-> PyStr(BrandIdsParam(brand_ids)),
   categoriesId |-> IF c # None THEN PyStr(Str(c[1])) ELSE PyStr(<<>>),
   limit |-> PyStr(Str(lim)),
   offset |-> PyStr(Str(off))]

\* urlencode({k: v for k, v in params.items() if v is not None}): the
\* query string, as the parameters it carries and their text
_build_api_url(params) ==
  [k \in {p \in DOMAIN params : ~params[p].is_none} |-> params[k].text]

OptionsRequest ==
  [kind |-> "options", cid |-> None, offset |-> 0, limit |-> 0,
   query |-> _build_api_url(
     [optionsKeys |-> PyStr(<<"brands", ",", "subcategories", ",", "banners">>)])]

GamesRequest(c, off, lim) ==
  [kind |-> "games", cid |-> c, offset |-> off, limit |-> lim,
   query |-> _build_api_url(ListingParams(c, off, lim))]

\* an offset that counts pages instead of items
NextOffset_ByOne(off, lim) == off + 1

\* offset += limit
NextOffset(off, lim) == off + lim

\* a return without the final slice
Trim_NoSlice(games, cap) == games

\* a slice one item too long
Trim_OffByOne(games, cap) == IF cap <= 0 THEN games ELSE Take(games, cap + 1)

\* collected if max_games <= 0 else collected[:max_games]
Trim(games, cap) ==
  IF cap <= 0 THEN games ELSE Take(games, cap)

\* a walk that takes a page shorter than limit for the last one
PageEndsCategory_ShortPage(games, lim) == Len(games) < lim

\* a walk that leaves a category at a page that brings no id it did not
\* hold already
PageEndsCategory_NothingNew(games, lim) ==
  \A i \in DOMAIN games : \E j \in DOMAIN collected : collected[j].id = games[i].id

\* if not page_games: break
PageEndsCategory(games, lim) == games = <<>>

\* the for statement takes the next category (offset = 0) or is exhausted
ForNext(cats) ==
  IF cat_idx + 1 <= Len(cats)
  THEN cat_idx' = cat_idx + 1 /\ offset' = 0 /\ pc' = "while"
  ELSE UNCHANGED <<cat_idx, offset>> /\ pc' = "return"

\* a warm-up whose failure is raised in both transports
WarmupRaises_Always(m, l) == l = "down"

\* the warm-up GET of _make_http_opener is inside try ... except Exception:
\* pass; page.goto is awaited bare, and raises when the page cannot be loaded
WarmupRaises(m, l) == m = "browser" /\ l = "down"

\* a resolver that looks at the explicit list first
UsesOptions_ExplicitFirst(all, ids) ==
  all /\ ~(ids # None /\ Len(ids[1]) > 0)

\* if all_categories: ... elif category_ids: ... else: ...
UsesOptions(all, ids) == all

\* a resolver that sorts and dedupes the caller's list in place
\* (category_ids[:] = sorted(set(category_ids))) before it walks it
Start_SortsSelection ==
  /\ pc = "start"
  /\ warmups' = warmups + 1
  /\ \/ /\ ~WarmupRaises(mode, landing)
        /\ UsesOptions(all_categories, category_ids)
        /\ requests' = Append(requests, OptionsRequest)
        /\ EnterEngine("options")
        /\ UNCHANGED <<api_json, walkvars, error, category_ids>>
     \/ /\ ~WarmupRaises(mode, landing)
        /\ ~UsesOptions(all_categories, category_ids)
        /\ category_ids' = IF category_ids # None
                           THEN Some(SortedSeq(Range(category_ids[1])))
                           ELSE None
        /\ resolved_category_ids' = ResolveExplicit(category_ids')
        /\ ForNext(resolved_category_ids')
        /\ UNCHANGED <<enginevars, page_games, collected, requests, error>>
     \/ /\ WarmupRaises(mode, landing)
        /\ pc' = "failed"
        /\ error' = Raised("PlaywrightError", "goto")
        /\ UNCHANGED <<enginevars, walkvars, requests, category_ids>>
  /\ UNCHANGED <<launchervars, mode, all_categories, brand_ids, limit,
                 max_games, sleep_s, retries, backoff_s, upstream,
                 options_body, paging, landing, interrupted, result, output,
                 served, slept>>

\* From the call to the first engine call or the first category: the
\* session is established (_make_http_opener's warm-up GET, whose failure
\* is swallowed; page.goto, whose failure is raised), then the categories
\* are taken from the arguments unless all_categories asks for the options.
Start ==
  /\ pc = "start"
  /\ warmups' = warmups + 1
  /\ \/ /\ ~WarmupRaises(mode, landing)
        /\ UsesOptions(all_categories, category_ids)
        /\ requests' = Append(requests, OptionsRequest)
        /\ EnterEngine("options")
        /\ UNCHANGED <<api_json, walkvars, error>>
     \/ /\ ~WarmupRaises(mode, landing)
        /\ ~UsesOptions(all_categories, category_ids)
        /\ resolved_category_ids' = ResolveExplicit(category_ids)
        /\ ForNext(resolved_category_ids')
        /\ UNCHANGED <<enginevars, page_games, collected, requests, error>>
     \/ /\ WarmupRaises(mode, landing)
        /\ pc' = "failed"
        /\ error' = Raised("PlaywrightError", "goto")
        /\ UNCHANGED <<enginevars, walkvars, requests>>
  /\ UNCHANGED <<launchervars,
                 cfgvars, interrupted, result, output, served, slept>>

\* the options came back: lines 899-909 / 974-984
Resolve ==
  /\ pc = "resolve"
  /\ resolved_category_ids' = ResolveAll(api_json)
  /\ ForNext(resolved_category_ids')
  /\ UNCHANGED <<launchervars,
                 cfgvars, enginevars, page_games, collected, endvars,
                 histvars>>

\* the while condition: the cap ends this category's loop, else the next
\* page is requested through the retry engine (a run is followed up to its
\* MaxRequests-th request)
While ==
  /\ pc = "while"
  /\ \/ /\ _cap_reached(Len(collected), max_games)
        /\ ForNext(resolved_category_ids)
        /\ UNCHANGED <<enginevars, requests>>
     \/ /\ ~_cap_reached(Len(collected), max_games)
        /\ Len(requests) < MaxRequests
        /\ requests' = Append(requests,
             GamesRequest(resolved_category_ids[cat_idx], offset, limit))
        /\ EnterEngine("games")
        /\ UNCHANGED <<api_json, cat_idx, offset>>
  /\ UNCHANGED <<launchervars,
                 cfgvars, resolved_category_ids, page_games, collected,
                 endvars, served, warmups, slept>>

\* page_games = _parse_games(api_json); if not page_games: break
Parse ==
  /\ pc = "parse"
  /\ \/ /\ ParseRaises(api_json)
        /\ pc' = "failed"
        /\ error' = Raised("AttributeError", "get")
        /\ UNCHANGED <<page_games, cat_idx, offset>>
     \/ /\ ~ParseRaises(api_json)
        /\ page_games' = _parse_games(api_json)
        /\ IF PageEndsCategory(page_games', limit)
           THEN ForNext(resolved_category_ids)
           ELSE pc' = "extend" /\ UNCHANGED <<cat_idx, offset>>
        /\ UNCHANGED error
  /\ UNCHANGED <<launchervars,
                 cfgvars, enginevars, resolved_category_ids, collected,
                 interrupted, result, output, histvars>>

\* a walk that requests the next page while it still accumulates this one
Extend_Prefetch ==
  /\ pc = "extend"
  /\ collected' = collected \o page_games
  /\ requests' = Append(requests,
       GamesRequest(resolved_category_ids[cat_idx],
                    NextOffset(offset, limit), limit))
  /\ pc' = "dedupe"
  /\ UNCHANGED <<launchervars,
                 cfgvars, enginevars, resolved_category_ids, cat_idx, offset,
                 page_games, endvars, served, warmups, slept>>

\* collected.extend(page_games)
Extend ==
  /\ pc = "extend"
  /\ collected' = collected \o page_games
  /\ pc' = "dedupe"
  /\ UNCHANGED <<launchervars,
                 cfgvars, enginevars, resolved_category_ids, cat_idx, offset,
                 page_games, endvars, histvars>>

\* a delay taken for every sleep_s that is not 0
TakesDelay_NonZero(slp) == slp # 0

\* if sleep_s > 0:
TakesDelay(slp) == slp > 0

\* collected = _dedupe(collected); offset += limit; if sleep_s > 0: sleep
Dedupe ==
  /\ pc = "dedupe"
  /\ collected' = _dedupe(collected)
  /\ offset' = NextOffset(offset, limit)
  /\ pc' = IF TakesDelay(sleep_s) THEN "sleep" ELSE "while"
  /\ UNCHANGED <<launchervars,
                 cfgvars, enginevars, resolved_category_ids, cat_idx,
                 page_games, endvars, histvars>>

\* the inter-page time.sleep / asyncio.sleep is over
Sleep ==
  /\ pc = "sleep"
  /\ slept' = Append(slept, sleep_s)
  /\ pc' = "while"
  /\ UNCHANGED <<launchervars,
                 cfgvars, enginevars, walkvars, endvars, requests, served,
                 warmups>>

\* return collected if max_games <= 0 else collected[:max_games]
Return ==
  /\ pc = "return"
  /\ result' = Trim(collected, max_games)
  /\ pc' = "done"
  /\ UNCHANGED <<launchervars,
                 cfgvars, enginevars, walkvars, interrupted, error, output,
                 histvars>>

\* main: _write_json / _write_csv of the returned games
WriteOutput ==
  /\ pc = "done"
  /\ output' = Some(result)
  /\ pc' = "written"
  /\ UNCHANGED <<launchervars,
                 cfgvars, enginevars, walkvars, interrupted, error, result,
                 histvars>>

(***************************** interrupt ***********************************)
\* the statements inside the try ... except KeyboardInterrupt of the walk
InTry == pc \in {"while", "parse", "extend", "dedupe", "sleep"}
           \/ (pc \in {"attempt", "backoff"} /\ caller = "games")

\* the statements before it: session set-up and the category resolver
BeforeTry == pc \in {"start", "resolve"}
               \/ (pc \in {"attempt", "backoff"} /\ caller = "options")

\* the run is suspended in an await (browser mode)
Suspended == pc \in {"start", "attempt", "backoff", "sleep"}

\* an engine with a bare "except:": an interrupt raised in an attempt or in
\* a wait is recorded as a failed attempt, and the loop goes on
Interrupt_Absorbed ==
  /\ ~interrupted
  /\ InTry \/ BeforeTry
  /\ interrupted' = TRUE
  /\ IF pc \in {"attempt", "backoff"}
     THEN /\ last_err' = "KeyboardInterrupt"
          /\ tries' = IF pc = "attempt" THEN tries + 1 ELSE tries
          /\ pc' = IF pc = "attempt" /\ SleepsAfterFailure(attempt, retries)
                   THEN "backoff"
                   ELSE IF HasNextAttempt(attempt, retries) THEN "attempt"
                   ELSE "failed"
          /\ attempt' = IF pc' = "attempt" THEN attempt + 1 ELSE attempt
          /\ error' = IF pc' = "failed"
                       THEN Raised("RuntimeError", "KeyboardInterrupt")
                       ELSE error
          /\ UNCHANGED <<caller, api_json, waited, last_reply>>
     ELSE /\ \/ /\ InTry
                /\ mode = "http" \/ ~Suspended
                /\ pc' = "return"
                /\ UNCHANGED error
             \/ /\ BeforeTry \/ mode = "browser"
                /\ pc' = "failed"
                /\ error' = Raised("KeyboardInterrupt", "")
          /\ UNCHANGED enginevars
  /\ UNCHANGED <<launchervars, cfgvars, walkvars, result, output, histvars>>

\* SIGINT.  In http mode KeyboardInterrupt is raised at the statement being
\* executed: the engine's "except Exception" does not catch it, the walk's
\* "except KeyboardInterrupt" does.  In browser mode the coroutine runs
\* under asyncio.run (main): while it is suspended the interrupt reaches it
\* as a cancellation (or is raised in the event loop), which the except
\* clause of the walk does not catch; while it runs, it is raised in it
\* (Python < 3.11) or cancels it at its next await (Python >= 3.11).
Interrupt ==
  /\ ~interrupted
  /\ InTry \/ BeforeTry
  /\ interrupted' = TRUE
  /\ \/ /\ InTry
        /\ mode = "http" \/ ~Suspended
        /\ pc' = "return"
        /\ UNCHANGED error
     \/ /\ BeforeTry \/ mode = "browser"
        /\ pc' = "failed"
        /\ error' = Raised("KeyboardInterrupt", "")
  /\ UNCHANGED <<launchervars,
                 cfgvars, enginevars, walkvars, result, output, histvars>>

(***************************** launcher: state *****************************)
\* serve_launcher: the handler threads of a ThreadingTCPServer share the
\* demo-link cache and the wallet.
Threads == {"t1", "t2"}

\* the game ids asked for, and the demo links the upstream hands out
GameIds == {7, 9}

Links == {"u1", "u2"}

\* n as a float, in tenths
Tenths(n) == n * 10

\* initial_balance: float = 1000.0
InitialBalance == Tenths(1000)

\* float(v) of a JSON value, in tenths: None where float raises (TypeError
\* on None, a list or a dict; ValueError on text that is not a number).
\* true is 1.0, and text is stripped and read as a number.  (Strings of the
\* model hold no ".", "e", "_", "nan" or "inf".)
float(v) ==
  CASE v.t = "int" -> Some(Tenths(v.n))
    [] v.t = "bool" -> Some(Tenths(v.n))
    [] v.t = "float" -> Some(v.n)
    [] v.t = "str" -> IF ParseIntStr(v.s) = None THEN None
                      ELSE Some(Tenths(ParseIntStr(v.s)[1]))
    [] OTHER -> None

\* A request body: text that is not JSON (the empty body included), JSON
\* that is not an object (null, a number, an array), or an object with or
\* without the key the handler reads ("amount" for init, "balance" for sync).
Garbage == [kind |-> "garbage", has |-> FALSE, value |-> JNull]

NonObject == [kind |-> "nonobject", has |-> FALSE, value |-> JNull]

ObjWithout == [kind |-> "object", has |-> FALSE, value |-> JNull]

ObjWith(v) == [kind |-> "object", has |-> TRUE, value |-> v]

\* 5, 2.5, "5", "x", true and null
PostedValues ==
  {JInt(5), JFloat(25), JStr(<<"5">>), JStr(<<"x">>), JBool(TRUE), JNull}

SyncBodies == {Garbage, NonObject, ObjWithout} \cup {ObjWith(v) : v \in PostedValues}

InitBodies == {Garbage, ObjWithout, ObjWith(JInt(7))}

Request(method, path, game_id, body) ==
  [method |-> method, path |-> path, game_id |-> game_id, body |-> body]

NoRequest == Request("", "", 0, Garbage)

\* the requests the launcher is sent
LauncherRequests ==
  {Request("GET", "/open", g, Garbage) : g \in GameIds}
    \cup {Request("GET", "/api/wallet/balance", 0, Garbage)}
    \cup {Request("POST", "/api/wallet/init", 0, b) : b \in InitBodies}
    \cup {Request("POST", "/api/wallet/sync", 0, b) : b \in SyncBodies}

\* what a handler sent: the status, the Location (302) and, for the
\* wallet, the "success" and "balance" of the JSON payload
Response(status, link, success, balance) ==
  [status |-> status, link |-> link, success |-> success, balance |-> balance]

NoResponse == Response(0, "", FALSE, 0)

\* a thread that handles no request; a thread that is done keeps what it
\* was asked and what it sent until its next request
IdleHandler ==
  [pc |-> "idle", request |-> NoRequest, demo_url |-> "", new_balance |-> 0,
   stored_at_start |-> FALSE, calls |-> 0, response |-> NoResponse]

\* cache = {}; wallet = Wallet(initial_balance); no request yet
LauncherConstructed ==
  /\ cache = [g \in GameIds |-> None]
  /\ wallet = [balance |-> InitialBalance]
  /\ handler = [t \in Threads |-> IdleHandler]
  /\ last_update = InitialBalance

Next ==
  \/ Start
  \/ Attempt
  \/ Backoff
  \/ Resolve
  \/ While
  \/ Parse
  \/ Extend
  \/ Dedupe
  \/ Sleep
  \/ Return
  \/ WriteOutput
  \/ Interrupt

Init ==
  \E sc \in Scenarios :
    /\ mode = sc.mode
    /\ category_ids = sc.category_ids
    /\ all_categories = sc.all_categories
    /\ brand_ids = sc.brand_ids
    /\ limit = sc.limit
    /\ max_games = sc.max_games
    /\ sleep_s = sc.sleep_s
    /\ retries = sc.retries
    /\ backoff_s = sc.backoff_s
    /\ upstream = sc.upstream
    /\ options_body = sc.options_body
    /\ paging = sc.paging
    /\ landing = sc.landing
    /\ pc = "start"
    /\ caller = ""
    /\ attempt = 0
    /\ last_err = ""
    /\ api_json = EmptyPage
    /\ resolved_category_ids = <<>>
    /\ cat_idx = 0
    /\ offset = 0
    /\ page_games = <<>>
    /\ collected = <<>>
    /\ interrupted = FALSE
    /\ error = NoError
    /\ result = <<>>
    /\ output = None
    /\ requests = <<>>
    /\ tries = 0
    /\ waited = <<>>
    /\ last_reply = Reply("ok", 200, "json")
    /\ served = <<>>
    /\ warmups = 0
    /\ slept = <<>>
    /\ LauncherConstructed

Spec == Init /\ [][Next]_vars

(***************************** _dedupe on its own **************************)
\* the games of the lists given to _dedupe: ids 1 and 2 come in two copies
GamePool ==
  { Game(1, "a"), Game(1, "b"), Game(2, "c"), Game(2, "d"), Game(3, "e") }

\* _dedupe(games) is called on a list: collected holds the argument "games"
\* and page_games a second list, result what _dedupe returned
DedupeInit ==
  /\ mode = "http"
  /\ category_ids = None
  /\ all_categories = FALSE
  /\ brand_ids = None
  /\ limit = 1
  /\ max_games = 0
  /\ sleep_s = 0
  /\ retries = 0
  /\ backoff_s = 1
  /\ upstream = (None :> <<>>)
  /\ options_body = NoOptions
  /\ paging = "ends"
  /\ landing = "ok"
  /\ pc = "games"
  /\ caller = ""
  /\ attempt = 0
  /\ last_err = ""
  /\ api_json = EmptyPage
  /\ resolved_category_ids = <<>>
  /\ cat_idx = 0
  /\ offset = 0
  /\ page_games \in SeqsUpTo(GamePool, 2)
  /\ collected \in SeqsUpTo(GamePool, MaxLen)
  /\ interrupted = FALSE
  /\ error = NoError
  /\ result = <<>>
  /\ output = None
  /\ requests = <<>>
  /\ tries = 0
  /\ waited = <<>>
  /\ last_reply = Reply("ok", 200, "json")
  /\ served = <<>>
  /\ warmups = 0
  /\ slept = <<>>
  /\ LauncherConstructed

\* result = _dedupe(games)
DedupeOnce ==
  /\ pc = "games"
  /\ result' = _dedupe(collected)
  /\ pc' = "deduped"
  /\ UNCHANGED <<launchervars,
                 cfgvars, enginevars, walkvars, interrupted, error, output,
                 histvars>>

\* result = _dedupe(result)
DedupeAgain ==
  /\ pc = "deduped"
  /\ result' = _dedupe(result)
  /\ pc' = "again"
  /\ UNCHANGED <<launchervars,
                 cfgvars, enginevars, walkvars, interrupted, error, output,
                 histvars>>

\* existing = result; result = _dedupe(existing + new)
DedupeAppended ==
  /\ pc = "again"
  /\ collected' = result
  /\ result' = _dedupe(result \o page_games)
  /\ pc' = "appended"
  /\ UNCHANGED <<launchervars,
                 cfgvars, enginevars, resolved_category_ids, cat_idx, offset,
                 page_games, interrupted, error, output, histvars>>

DedupeNext ==
  \/ DedupeOnce
  \/ DedupeAgain
  \/ DedupeAppended

DedupeSpec == DedupeInit /\ [][DedupeNext]_vars

(***************************** launcher ************************************)
\* a handler that resolves every request anew
InCache_Never(c, game_id) == FALSE

\* game_id in cache
InCache(c, game_id) == c[game_id] # None

\* Wallet.update: self.balance = amount
update(w, amount) == [w EXCEPT !.balance = amount]

\* json.loads(body), then float(data.get(key, default)), in tenths: None
\* where one of them raises (JSONDecodeError, AttributeError on a value
\* that has no get, TypeError, ValueError)
PostedFloat(body, default) ==
  IF body.kind # "object" THEN None
  ELSE IF ~body.has THEN Some(default)
  ELSE float(body.value)

\* the try of /api/wallet/init: amount = 1000.0 when it raises
InitAmount(body) ==
  IF PostedFloat(body, Tenths(1000)) = None THEN Tenths(1000)
  ELSE PostedFloat(body, Tenths(1000))[1]

\* do_GET / do_POST up to the branch of the path
Route(req) ==
  CASE req.path = "/api/wallet/balance" -> "balance"
    [] req.path = "/open" -> "lookup"
    [] req.path = "/api/wallet/init" -> "init"
    [] req.path = "/api/wallet/sync" -> "sync"

\* thread t sends resp and is done with its request
Finish(t, resp) ==
  handler' = [handler EXCEPT ![t].pc = "idle", ![t].response = resp]

\* a handler thread is started for a request
Accept ==
  /\ \E t \in Threads, req \in LauncherRequests :
       /\ handler[t].pc = "idle"
       /\ handler' = [handler EXCEPT ![t] =
            [IdleHandler EXCEPT
               !.pc = Route(req),
               !.request = req,
               !.stored_at_start =
                  req.path = "/open" /\ cache[req.game_id] # None]]
  /\ UNCHANGED <<runvars, cache, wallet, last_update>>

\* if game_id in cache:
CacheLookup ==
  /\ \E t \in Threads :
       /\ handler[t].pc = "lookup"
       /\ handler' = [handler EXCEPT ![t].pc =
            IF InCache(cache, handler[t].request.game_id)
            THEN "read" ELSE "resolve"]
  /\ UNCHANGED <<runvars, cache, wallet, last_update>>

\* demo_url = cache[game_id], then the redirect to it
CacheRead ==
  /\ \E t \in Threads :
       LET demo_url == cache[handler[t].request.game_id][1] IN
       /\ handler[t].pc = "read"
       /\ handler' = [handler EXCEPT
            ![t].pc = "idle",
            ![t].demo_url = demo_url,
            ![t].response = Response(302, demo_url, FALSE, 0)]
  /\ UNCHANGED <<runvars, cache, wallet, last_update>>

\* demo_url = _get_demo_link_http(...): the upstream gives a link, or the
\* call raises (no link in the response, or the retry budget is spent) and
\* the handler answers 500
GetDemoLink ==
  /\ \E t \in Threads :
       /\ handler[t].pc = "resolve"
       /\ \/ \E link \in Links :
               handler' = [handler EXCEPT
                 ![t].pc = "store",
                 ![t].demo_url = link,
                 ![t].calls = @ + 1]
          \/ handler' = [handler EXCEPT
               ![t].pc = "idle",
               ![t].calls = @ + 1,
               ![t].response = Response(500, "", FALSE, 0)]
  /\ UNCHANGED <<runvars, cache, wallet, last_update>>

\* cache[game_id] = demo_url, then the redirect to it
CacheStore ==
  /\ \E t \in Threads :
       /\ handler[t].pc = "store"
       /\ cache' = [cache EXCEPT ![handler[t].request.game_id] =
                      Some(handler[t].demo_url)]
       /\ Finish(t, Response(302, handler[t].demo_url, FALSE, 0))
  /\ UNCHANGED <<runvars, wallet, last_update>>

\* GET /api/wallet/balance
WalletBalance ==
  /\ \E t \in Threads :
       /\ handler[t].pc = "balance"
       /\ Finish(t, Response(200, "", FALSE, wallet.balance))
  /\ UNCHANGED <<runvars, cache, wallet, last_update>>

\* POST /api/wallet/init: the amount is read and wallet.update(amount)
WalletInit ==
  /\ \E t \in Threads :
       /\ handler[t].pc = "init"
       /\ wallet' = update(wallet, InitAmount(handler[t].request.body))
       /\ last_update' = InitAmount(handler[t].request.body)
       /\ handler' = [handler EXCEPT ![t].pc = "init_send"]
  /\ UNCHANGED <<runvars, cache>>

\* self._send_json(200, {"balance": wallet.balance})
WalletInitSend ==
  /\ \E t \in Threads :
       /\ handler[t].pc = "init_send"
       /\ Finish(t, Response(200, "", FALSE, wallet.balance))
  /\ UNCHANGED <<runvars, cache, wallet, last_update>>

\* POST /api/wallet/sync: new_balance = float(data.get("balance",
\* wallet.balance)), or the except clause and its 400
WalletSyncParse ==
  /\ \E t \in Threads :
       LET new_balance == PostedFloat(handler[t].request.body, wallet.balance)
       IN /\ handler[t].pc = "sync"
          /\ IF new_balance = None
             THEN Finish(t, Response(400, "", FALSE, 0))
             ELSE handler' = [handler EXCEPT
                    ![t].pc = "sync_update",
                    ![t].new_balance = new_balance[1]]
  /\ UNCHANGED <<runvars, cache, wallet, last_update>>

\* wallet.update(new_balance)
WalletSyncUpdate ==
  /\ \E t \in Threads :
       /\ handler[t].pc = "sync_update"
       /\ wallet' = update(wallet, handler[t].new_balance)
       /\ last_update' = handler[t].new_balance
       /\ handler' = [handler EXCEPT ![t].pc = "sync_send"]
  /\ UNCHANGED <<runvars, cache>>

\* self._send_json(200, {"success": True, "balance": wallet.balance})
WalletSyncSend ==
  /\ \E t \in Threads :
       /\ handler[t].pc = "sync_send"
       /\ Finish(t, Response(200, "", TRUE, wallet.balance))
  /\ UNCHANGED <<runvars, cache, wallet, last_update>>

LauncherNext ==
  \/ Accept
  \/ CacheLookup
  \/ CacheRead
  \/ GetDemoLink
  \/ CacheStore
  \/ WalletBalance
  \/ WalletInit
  \/ WalletInitSend
  \/ WalletSyncParse
  \/ WalletSyncUpdate
  \/ WalletSyncSend

\* serve_forever: no scrape runs
LauncherInit ==
  /\ mode = "http"
  /\ category_ids = None
  /\ all_categories = FALSE
  /\ brand_ids = None
  /\ limit = 1
  /\ max_games = 0
  /\ sleep_s = 0
  /\ retries = 0
  /\ backoff_s = 1
  /\ upstream = (None :> <<>>)
  /\ options_body = NoOptions
  /\ paging = "ends"
  /\ landing = "ok"
  /\ pc = "serving"
  /\ caller = ""
  /\ attempt = 0
  /\ last_err = ""
  /\ api_json = EmptyPage
  /\ resolved_category_ids = <<>>
  /\ cat_idx = 0
  /\ offset = 0
  /\ page_games = <<>>
  /\ collected = <<>>
  /\ interrupted = FALSE
  /\ error = NoError
  /\ result = <<>>
  /\ output = None
  /\ requests = <<>>
  /\ tries = 0
  /\ waited = <<>>
  /\ last_reply = Reply("ok", 200, "json")
  /\ served = <<>>
  /\ warmups = 0
  /\ slept = <<>>
  /\ LauncherConstructed

LauncherSpec == LauncherInit /\ [][LauncherNext]_vars

(***************************** properties **********************************)
\* the scrape function has returned a collection
Returned == pc \in {"done", "written"}

\* ... and no interrupt cut the walk short
Completed == Returned /\ ~interrupted

\* the retry engine has raised after its loop
Exhausted == pc = "failed" /\ error.type = "RuntimeError"

\* the id a served listing entry parses to (None: the entry is dropped)
EntryId(e) == IF e.obj THEN _to_int(e.id) ELSE None

NoRepeatedId(games) ==
  \A i, j \in DOMAIN games : i # j => games[i].id # games[j].id

\* g is the copy of the first served entry that carries g's id
IsFirstServed(g) ==
  \E k \in DOMAIN served :
    /\ EntryId(served[k]) = Some(g.id)
    /\ served[k].name = g.name
    /\ \A j \in 1..(k - 1) : EntryId(served[j]) # Some(g.id)

RECURSIVE SumSeq(_)
SumSeq(s) == IF s = <<>> THEN 0 ELSE Head(s) + SumSeq(Tail(s))

\* C1: the returned collection holds each item id at most once, and the
\* item kept for an id is the copy of that id's first occurrence in request
\* order (category order, then offset order, then position in the page).
C1_ReturnedUniqueFirstSeen ==
  Returned =>
    /\ NoRepeatedId(result)
    /\ \A i \in DOMAIN result : IsFirstServed(result[i])

\* the same on the runs that no interrupt cut short
UninterruptedUniqueFirstSeen ==
  Completed =>
    /\ NoRepeatedId(result)
    /\ \A i \in DOMAIN result : IsFirstServed(result[i])

\* the pages a category serves (none for a category the upstream ignores)
CatPages(c) == IF c \in DOMAIN upstream THEN upstream[c] ELSE <<>>

RECURSIVE LivePrefix(_)
\* the pages of a category up to its first page that parses to no item
LivePrefix(pages) ==
  IF pages = <<>> \/ _parse_games(Head(pages)) = <<>>
  THEN <<>>
  ELSE <<Head(pages)>> \o LivePrefix(Tail(pages))

IdsOfPages(pages) ==
  UNION {{g.id : g \in Range(_parse_games(pages[k]))} : k \in DOMAIN pages}

\* the distinct ids the upstream lists under the walked categories
ExposedIds ==
  UNION {IdsOfPages(CatPages(c)) : c \in Range(resolved_category_ids)}

\* ... counting, in each category, only the pages before the first page
\* that parses to no item
WalkableIds ==
  UNION {IdsOfPages(LivePrefix(CatPages(c))) : c \in Range(resolved_category_ids)}

CapExact(u) ==
  Len(result) = IF max_games > 0 THEN Min(max_games, u) ELSE u

\* C2 as stated: a run that completes without error or interrupt returns
\* exactly min(N, U) items for cap = N > 0 and exactly U items for cap = 0,
\* U being the number of distinct ids the upstream exposes over the walked
\* categories.
C2_CapExactAllExposed ==
  (Completed /\ max_games >= 0) => CapExact(Cardinality(ExposedIds))

\* C2 amended: the same with U counting, in each walked category, the
\* distinct valid ids of the pages served before the category's first page
\* that parses to zero items.
C2_CapExactUpToEmptyPage ==
  (Completed /\ max_games >= 0) => CapExact(Cardinality(WalkableIds))

\* a completed run whose cap cut off ids that the upstream had served
C2_Witness ==
  /\ Completed
  /\ max_games > 0
  /\ Len(result) = max_games
  /\ Cardinality(WalkableIds) > max_games
  /\ Len(requests) > 1

\* C3: a fetch whose every attempt fails is attempted exactly retries + 1
\* times, after which the engine raises an error that carries the cause of
\* the last attempt; the engine returns a value only from an attempt that
\* succeeded, and never makes attempt retries + 2.
C3_ExhaustedAfterAllAttempts ==
  /\ tries <= retries + 1
  /\ pc = "attempt" => (tries = attempt /\ attempt <= retries)
  /\ pc \in {"parse", "resolve"} => AttemptError(last_reply) = ""
  /\ Exhausted =>
       /\ tries = retries + 1
       /\ error.cause # ""
       /\ error.cause = AttemptError(last_reply)

\* retries = 3: the engine gave up after its 4th failed attempt
C3_Witness ==
  /\ Exhausted
  /\ retries = 3
  /\ tries = 4
  /\ caller = "games"

\* C4: the k-th wait of an engine call lasts backoff_s * 2^(k-1); a wait is
\* taken only between two attempts, none before the first attempt and none
\* after the last failed one, so an engine call that gives up has waited
\* backoff_s * (2^retries - 1) in all.
C4_BackoffSchedule ==
  /\ \A k \in DOMAIN waited : waited[k] = backoff_s * Pow2(k - 1)
  /\ Len(waited) <= tries
  /\ pc = "backoff" => Len(waited) = tries - 1
  /\ Exhausted =>
       /\ Len(waited) = retries
       /\ SumSeq(waited) = backoff_s * (Pow2(retries) - 1)

\* retries = 3 and backoff_s = 0.5 s (2 ticks): 0.5 + 1.0 + 2.0 s waited
C4_Witness ==
  /\ Exhausted
  /\ retries = 3
  /\ backoff_s = 2
  /\ waited = <<2, 4, 8>>
  /\ SumSeq(waited) = 14

\* the listing requests issued for category c, in order
ReqsFor(c) ==
  SelectSeq(requests, LAMBDA r : r.kind = "games" /\ r.cid = c)

\* the games category c lists, page after page
GamesOf(c) ==
  LET ps == CatPages(c)
  IN IF Len(ps) = 2 THEN _parse_games(ps[1]) \o _parse_games(ps[2]) ELSE <<>>

\* the pages of category c are [k items, k items] (and then nothing) for
\* some k > 0, every entry valid and the 2k ids distinct
TwoFullPages(c) ==
  LET ps == CatPages(c)
  IN /\ paging = "ends"
     /\ Len(ps) = 2
     /\ \A i \in 1..2 : ps[i].kind = "object" /\ ps[i].is_list
     /\ Len(ps[1].items) > 0
     /\ Len(ps[2].items) = Len(ps[1].items)
     /\ Len(GamesOf(c)) = 2 * Len(ps[1].items)
     /\ NoRepeatedId(GamesOf(c))

\* c is walked once, and no other walked category lists one of its ids
WalkedAlone(c) ==
  /\ Cardinality({i \in DOMAIN resolved_category_ids :
                    resolved_category_ids[i] = c}) = 1
  /\ \A d \in Range(resolved_category_ids) \ {c} :
       IdsOfPages(CatPages(d)) \cap IdsOfPages(CatPages(c)) = {}

CapNeverReached == ~_cap_reached(Len(collected), max_games)

\* C5: a category whose pages are [k items, k items, 0 items] gets exactly
\* 3 page requests (offsets 0, limit, 2 * limit), contributes exactly 2k
\* items, and gets no request after its empty page.
C5_TwoPagesThenEmpty ==
  \A c \in Range(resolved_category_ids) :
    (TwoFullPages(c) /\ WalkedAlone(c)) =>
      /\ Len(ReqsFor(c)) <= 3
      /\ \A i \in DOMAIN ReqsFor(c) : ReqsFor(c)[i].offset = (i - 1) * limit
      /\ (Completed /\ CapNeverReached) =>
           /\ Len(ReqsFor(c)) = 3
           /\ Cardinality({i \in DOMAIN result :
                             result[i] \in Range(GamesOf(c))})
                = Len(GamesOf(c))

\* a completed walk of a category with pages [2 items, 2 items, 0 items]
C5_Witness ==
  /\ Completed
  /\ CapNeverReached
  /\ \E c \in Range(resolved_category_ids) :
       /\ TwoFullPages(c)
       /\ WalkedAlone(c)
       /\ Len(GamesOf(c)) = 4
       /\ Len(ReqsFor(c)) = 3
       /\ Len(result) = 4

\* this step is the failure of the last attempt the budget allows for a
\* listing page
LastListingAttemptFails ==
  /\ pc = "attempt"
  /\ caller = "games"
  /\ tries = retries
  /\ tries' = tries + 1
  /\ AttemptError(last_reply') # ""

\* C6: when the retry budget is exhausted for a listing page the run fails:
\* the error leaves the scrape function, no further request is issued (for
\* this or any later category), nothing is returned and main writes no file.
C6_ExhaustionIsFatal ==
  [][ /\ LastListingAttemptFails =>
           /\ pc' = "failed"
           /\ error'.type = "RuntimeError"
      /\ pc = "failed" =>
           /\ pc' = "failed"
           /\ requests' = requests
           /\ result' = <<>>
           /\ output' = None ]_vars

\* a page fetch gave up with games already collected and a category left
C6_Witness ==
  /\ Exhausted
  /\ caller = "games"
  /\ collected # <<>>
  /\ cat_idx < Len(resolved_category_ids)
  /\ result = <<>>
  /\ output = None

\* the number of unique items accumulated
UniqueCount == Cardinality({collected[i].id : i \in DOMAIN collected})

\* this step issues a listing page request
IssuesPageRequest ==
  /\ Len(requests') = Len(requests) + 1
  /\ requests'[Len(requests')].kind = "games"

\* C7: with cap > 0 no page request is issued while the number of unique
\* items accumulated is >= cap: once the cap is reached no request follows,
\* in the current category or in a later one.
C7_NoRequestAtCap ==
  [][ (max_games > 0 /\ UniqueCount >= max_games) => ~IssuesPageRequest ]_vars

\* the cap stopped the walk with a non-empty category never requested
C7_Witness ==
  /\ Completed
  /\ max_games > 0
  /\ UniqueCount >= max_games
  /\ \E c \in Range(resolved_category_ids) :
       CatPages(c) # <<>> /\ ReqsFor(c) = <<>>

\* C8: on every returning path (completion, cap stop, interrupt) with
\* cap > 0 the returned collection is the first min(cap, n) of the n
\* accumulated items, in accumulated order, so it is never longer than cap;
\* with cap <= 0 it is the whole accumulated collection.
C8_ReturnedIsCapPrefix ==
  Returned =>
    /\ Len(result) = IF max_games > 0
                     THEN Min(max_games, Len(collected))
                     ELSE Len(collected)
    /\ \A i \in DOMAIN result : result[i] = collected[i]
    /\ max_games > 0 => Len(result) <= max_games

\* an interrupted walk that had overshot its cap returned exactly cap items
C8_Witness ==
  /\ Returned
  /\ interrupted
  /\ max_games > 0
  /\ Len(collected) > max_games
  /\ Len(result) = max_games

\* this step delivers the interrupt during the walk
InterruptInWalk == ~interrupted /\ interrupted' /\ InTry

\* C9: an interrupt that arrives during the walk (in a fetch, in a backoff
\* wait, in the inter-page delay or between pages) makes the run return
\* normally with what was accumulated, and no page request follows it.
C9_InterruptReturnsPartial ==
  [][ /\ InterruptInWalk =>
           /\ pc' = "return"
           /\ collected' = collected
      /\ interrupted => requests' = requests ]_vars

\* C9 restricted to scrape_games_http
HttpInterruptReturnsPartial ==
  [][ /\ (InterruptInWalk /\ mode = "http") =>
           /\ pc' = "return"
           /\ collected' = collected
      /\ interrupted => requests' = requests ]_vars

\* the resolver has run
CategoriesResolved ==
  all_categories /\ (cat_idx > 0 \/ pc \in {"return", "done", "written"})

\* the integer-coercible subcategory ids that are > 0 and not 998 or 999
WantedCategories ==
  LET subs == IF options_body.kind = "object" /\ options_body.is_list
              THEN options_body.items ELSE <<>>
  IN { n \in {_to_int(subs[i].id)[1] :
                i \in {j \in DOMAIN subs :
                         subs[j].obj /\ _to_int(subs[j].id) # None}} :
         n > 0 /\ n # 998 /\ n # 999 }

\* the categories in the order their first page was requested
VisitOrder ==
  LET firsts == SelectSeq(requests,
                          LAMBDA r : r.kind = "games" /\ r.offset = 0)
  IN [i \in DOMAIN firsts |-> firsts[i].cid]

\* C10: with "all categories" the resolved list is the ascending,
\* duplicate-free list of the integer-coercible subcategory ids that are
\* > 0 and neither 998 nor 999 ([1, 998, 999, 5, -1, "x"] gives [1, 5]),
\* and the walk visits the categories in that order.
C10_ResolvedAllCategories ==
  CategoriesResolved =>
    /\ \A i, j \in DOMAIN resolved_category_ids :
         i < j => resolved_category_ids[i][1] < resolved_category_ids[j][1]
    /\ {resolved_category_ids[i][1] : i \in DOMAIN resolved_category_ids}
         = WantedCategories
    /\ options_body = Body(ExampleSubs) =>
         resolved_category_ids = <<Some(1), Some(5)>>
    /\ Len(VisitOrder) <= Len(resolved_category_ids)
    /\ \A i \in DOMAIN VisitOrder : VisitOrder[i] = resolved_category_ids[i]
    /\ (Completed /\ CapNeverReached) => VisitOrder = resolved_category_ids

\* the example payload resolved to [1, 5], walked in that order
C10_Witness ==
  /\ Completed
  /\ options_body = Body(ExampleSubs)
  /\ resolved_category_ids = <<Some(1), Some(5)>>
  /\ VisitOrder = <<Some(1), Some(5)>>
  /\ Len(result) = 2

\* explicit category ids were supplied and "all categories" was not asked
ExplicitSelection ==
  ~all_categories /\ category_ids # None /\ category_ids[1] # <<>>

\* the caller's list, as the walker's categories
CallerOrder == [i \in DOMAIN category_ids[1] |-> Some(category_ids[1][i])]

\* C11: with explicit category ids (and no "all categories") the walker
\* visits exactly those ids in the caller-given order, neither sorted nor
\* deduplicated: an id listed twice is walked twice from offset 0, and no
\* options request is issued.
C11_ExplicitCategoriesAsGiven ==
  (ExplicitSelection /\ cat_idx > 0) =>
    /\ resolved_category_ids = CallerOrder
    /\ \A i \in DOMAIN requests : requests[i].kind # "options"
    /\ Len(VisitOrder) <= Len(CallerOrder)
    /\ \A i \in DOMAIN VisitOrder : VisitOrder[i] = CallerOrder[i]
    /\ (Completed /\ CapNeverReached) => VisitOrder = CallerOrder

\* category 1 was listed twice and walked twice, each time from offset 0
C11_Witness ==
  /\ Completed
  /\ category_ids = Some(<<1, 1>>)
  /\ VisitOrder = <<Some(1), Some(1)>>
  /\ Len(ReqsFor(Some(1))) >= 4
  /\ \A i \in DOMAIN requests : requests[i].kind = "games"

\* neither "all categories" nor explicit ids
NoSelection ==
  ~all_categories /\ (category_ids = None \/ category_ids[1] = <<>>)

\* C12: with neither "all categories" nor explicit ids the run makes exactly
\* one unfiltered walk (the category list is the single no-filter marker),
\* and every page request of it omits the category parameter entirely.
C12_UnfilteredWalkOmitsCategory ==
  (NoSelection /\ cat_idx > 0) =>
    /\ resolved_category_ids = <<None>>
    /\ Len(VisitOrder) <= 1
    /\ \A i \in DOMAIN requests :
         /\ requests[i].kind = "games"
         /\ requests[i].cid = None
         /\ "categoriesId" \notin DOMAIN requests[i].query

\* what the code does instead: the parameter is sent, with an empty value
UnfilteredWalkSendsEmptyCategory ==
  (NoSelection /\ cat_idx > 0) =>
    /\ resolved_category_ids = <<None>>
    /\ Len(VisitOrder) <= 1
    /\ \A i \in DOMAIN requests :
         /\ requests[i].kind = "games"
         /\ requests[i].cid = None
         /\ "categoriesId" \in DOMAIN requests[i].query
         /\ requests[i].query["categoriesId"] = <<>>

\* this step is the failure of the last attempt the budget allows for the
\* options request
LastOptionsAttemptFails ==
  /\ pc = "attempt"
  /\ caller = "options"
  /\ tries = retries
  /\ tries' = tries + 1
  /\ AttemptError(last_reply') # ""

\* C13: when the options endpoint cannot be fetched within the retry budget
\* while "all categories" is asked, the failure leaves the run: no listing
\* page request is ever issued, and the run returns no collection (not an
\* empty one either) and writes no file.
C13_ResolverFailurePropagates ==
  [][ /\ LastOptionsAttemptFails =>
           /\ pc' = "failed"
           /\ error'.type = "RuntimeError"
      /\ (pc = "failed" /\ caller = "options") =>
           /\ \A i \in DOMAIN requests : requests[i].kind # "games"
           /\ pc' = "failed"
           /\ requests' = requests
           /\ result' = <<>>
           /\ output' = None ]_vars

\* the options fetch gave up after its retries, before any page request
C13_Witness ==
  /\ Exhausted
  /\ caller = "options"
  /\ all_categories
  /\ retries >= 1
  /\ tries = retries + 1
  /\ requests = <<OptionsRequest>>
  /\ output = None

\* over the upstreams whose listings end every walk stays below the horizon
EndingWalksStayBelowHorizon ==
  paging = "ends" => Len(requests) < MaxRequests

\* C14: the walk is finite: for every configuration (limit > 0, any cap,
\* 0 included) and every upstream whose fetches all return, one that serves
\* duplicate pages included, the walker issues finitely many page requests
\* and then returns.  Every walk that ends does so in fewer than MaxRequests
\* requests (EndingWalksStayBelowHorizon), so the claim is stated for the
\* horizon: no run arrives at its MaxRequests-th request.
C14_WalkIsFinite == Len(requests) < MaxRequests

\* the failures of a single attempt: network error, timeout, non-success
\* status, empty body, body that is not JSON
FailureReplies ==
  { Reply("error", 0, "empty"), Reply("timeout", 0, "empty"),
    Reply("ok", 500, "json"), Reply("ok", 200, "empty"),
    Reply("ok", 200, "garbage") }

\* this step is an attempt that meets one of these failures
AttemptFails ==
  /\ pc = "attempt"
  /\ tries' = tries + 1
  /\ last_reply' \in FailureReplies

\* C15: every kind of failure of a single attempt is retryable: while
\* attempts remain the failure is followed by another attempt (after the
\* wait), and no kind of failure ends the loop before retries + 1 attempts
\* have been made.
C15_EveryFailureRetried ==
  [][ /\ AttemptFails =>
           /\ AttemptError(last_reply') # ""
           /\ IF attempt < retries
              THEN pc' \in {"backoff", "attempt"} /\ error' = NoError
              ELSE pc' = "failed" /\ tries' = retries + 1
      /\ (pc = "backoff" /\ interrupted' = interrupted) =>
           /\ pc' = "attempt"
           /\ attempt' = attempt + 1
           /\ attempt' <= retries ]_vars

\* a fourth attempt is about to follow a timeout, the third failure
C15_Witness ==
  /\ pc = "attempt"
  /\ tries = 3
  /\ attempt = 3
  /\ last_reply = Reply("timeout", 0, "empty")
  /\ error = NoError

\* the engine of transport m takes the reply for a successful attempt
Accepts(m, reply) ==
  IF m = "http" THEN HttpAttemptError(reply) = ""
  ELSE BrowserAttemptError(reply) = ""

\* C16: scrape_games_http and scrape_games are equivalent for the caller:
\* with the same configuration and the same upstream responses (status and
\* body per request) both issue the same requests, make the same number of
\* attempts per request and end with the same collection or failure.  The
\* two walks are the same code, so the runs agree as long as the engines
\* agree on each reply: whatever reply an attempt of this run was given,
\* the other transport's engine accepts it if and only if this one does.
C16_TransportsEquivalent ==
  tries > 0 => (Accepts("http", last_reply) <=> Accepts("browser", last_reply))

\* this step issues a request (for the options or for a page)
IssuesRequest == Len(requests') = Len(requests) + 1

\* C17: at most one fetch is in flight at any time, in both transports: a
\* request is started only when the previous request, its retries and the
\* accumulation of its page are over, and the engine then works on that
\* request alone until it returns or raises.
C17_OneFetchInFlight ==
  [][ /\ IssuesRequest =>
           /\ pc \in {"start", "while"}
           /\ \A i \in DOMAIN page_games :
                \E j \in DOMAIN collected : collected[j].id = page_games[i].id
           /\ NoRepeatedId(collected)
           /\ pc' = "attempt"
           /\ tries' = 0
      /\ pc \in {"attempt", "backoff"} =>
           /\ requests # <<>>
           /\ requests[Len(requests)].kind = caller
           /\ Len(requests') = Len(requests) ]_vars

\* the second page of a category is being fetched in the browser, the
\* first one accumulated
C17_Witness ==
  /\ pc = "attempt"
  /\ mode = "browser"
  /\ caller = "games"
  /\ offset = limit
  /\ collected # <<>>
  /\ Len(requests) = 2

\* the entries of a list that are the first of their id, in order
FirstOccurrences(games) ==
  LET keep == {i \in DOMAIN games :
                 \A j \in 1..(i - 1) : games[j].id # games[i].id}
      at == SortedSeq(keep)
  IN [k \in DOMAIN at |-> games[at[k]]]

\* the items of the pages received, page after page in request order
ServedGames == ParseItems(served)

InterruptInResolver ==
  /\ ~interrupted
  /\ interrupted'
  /\ caller = "options"
  /\ pc \in {"attempt", "backoff"}

\* C19: an interrupt is never an error: when it arrives while the resolver
\* is still querying the options endpoint, before the walk, the run also
\* returns normally, with the empty collection accumulated so far.
C19_InterruptInResolverReturns ==
  [][ InterruptInResolver =>
        /\ pc' = "return"
        /\ collected' = <<>>
        /\ error' = NoError ]_vars

\* a step of the walk itself (no interrupt is delivered in it)
WalkStep == interrupted' = interrupted

\* C20: only a page that parses to zero items ends a category: after a
\* page of more than 0 and fewer than limit items the walker, cap
\* permitting, still requests the same category at offset + limit, and it
\* leaves the category only when a later page parses to zero items.
C20_OnlyEmptyPageEndsCategory ==
  [][ /\ (pc = "parse" /\ WalkStep /\ ~ParseRaises(api_json)) =>
           IF _parse_games(api_json) = <<>>
           THEN pc' \in {"while", "return"} /\ collected' = collected
           ELSE pc' = "extend" /\ cat_idx' = cat_idx
      /\ (pc = "while" /\ WalkStep /\ offset > 0
            /\ ~(max_games > 0 /\ UniqueCount >= max_games)) =>
           /\ IssuesPageRequest
           /\ cat_idx' = cat_idx
           /\ requests[Len(requests)].cid = resolved_category_ids[cat_idx]
           /\ requests'[Len(requests')].cid = resolved_category_ids[cat_idx]
           /\ requests'[Len(requests')].offset
                = requests[Len(requests)].offset + limit ]_vars

\* pages of 1, 1 and 0 items with limit = 2: each short page was followed
\* by the next request, and the empty page at offset 4 ended the category
C20_Witness ==
  /\ Completed
  /\ limit = 2
  /\ max_games = 0
  /\ \E c \in Range(resolved_category_ids) :
       /\ Len(CatPages(c)) = 2
       /\ Len(_parse_games(CatPages(c)[1])) = 1
       /\ Len(_parse_games(CatPages(c)[2])) = 1
       /\ Len(ReqsFor(c)) = 3
       /\ ReqsFor(c)[3].offset = 4
  /\ Len(result) = 2

\* the request this step issues
Issued == requests'[Len(requests')]

\* C21: in every visit of a category the page requests carry the offsets
\* 0, limit, 2 * limit, ... in that order, with page size limit: the offset
\* restarts at 0 when a category begins, grows by exactly limit after each
\* non-empty page, is not advanced by a failed attempt or a retry, and no
\* offset is requested twice within one visit.
C21_OffsetsStepByLimit ==
  [][ /\ IssuesPageRequest =>
           /\ Issued.limit = limit
           /\ Issued.offset = offset
           /\ Issued.query["limit"] = Str(limit)
           /\ Issued.query["offset"] = Str(offset)
           /\ \/ Issued.offset = 0
              \/ /\ requests[Len(requests)].kind = "games"
                 /\ requests[Len(requests)].cid = Issued.cid
                 /\ Issued.offset = requests[Len(requests)].offset + limit
                 /\ page_games # <<>>
      /\ (cat_idx' # cat_idx) => offset' = 0
      /\ pc \in {"attempt", "backoff", "extend", "sleep"} =>
           /\ offset' = offset
           /\ requests' = requests
      /\ pc = "parse" =>
           /\ offset' \in {offset, 0}
           /\ (offset' # offset) => cat_idx' # cat_idx
           /\ requests' = requests
      /\ (pc = "dedupe" /\ WalkStep) => offset' = offset + limit ]_vars

\* category 1 was requested at offsets 0, 1, 2, 3 and category 2 from 0
C21_Witness ==
  /\ Completed
  /\ limit = 1
  /\ Len(requests) >= 5
  /\ \A i \in 1..4 :
       requests[i].cid = Some(1) /\ requests[i].offset = i - 1
  /\ requests[5].cid = Some(2)
  /\ requests[5].offset = 0

\* the entries of a "games" array that are objects with a valid integer id,
\* in their order, as games
ValidEntries(items) ==
  LET at == SortedSeq({i \in DOMAIN items : EntryId(items[i]) # None})
  IN [k \in DOMAIN at |->
        Game(EntryId(items[at[k]])[1], items[at[k]].name)]

\* this step parses a listing whose "games" is a list
ParsesList ==
  /\ pc = "parse"
  /\ WalkStep
  /\ api_json.kind = "object"
  /\ api_json.is_list

\* C22: the entries of a page that are not objects or have no valid integer
\* id are dropped silently, without an error and without a retry, and the
\* valid entries of the page are kept in their order; a non-empty page
\* whose entries are all invalid parses to zero items and so ends the
\* category like an empty page.
C22_InvalidItemsDropped ==
  [][ ParsesList =>
        /\ page_games' = ValidEntries(api_json.items)
        /\ pc' # "failed"
        /\ error' = NoError
        /\ tries' = tries
        /\ requests' = requests
        /\ (ValidEntries(api_json.items) = <<>>) =>
             /\ pc' \in {"while", "return"}
             /\ collected' = collected
             /\ (pc' = "while") => (cat_idx' = cat_idx + 1 /\ offset' = 0) ]_vars

\* of a page [not an object, {id: 1}] the game 1 was kept
C22_Witness ==
  /\ pc = "extend"
  /\ api_json = Body(<<NotAnObject, RawGame(JInt(1), "a")>>)
  /\ page_games = <<Game(1, "a")>>
  /\ error = NoError
  /\ tries = 1

\* the collection as it was before the page now in it was appended
BeforePage == Take(collected, Len(collected) - Len(page_games))

\* the items of the page whose id the collection did not hold, each once
NewOfPage(old, page) ==
  FirstOccurrences(
    SelectSeq(page, LAMBDA g : \A i \in DOMAIN old : old[i].id # g.id))

\* C23: the accumulator is append-only in first-occurrence order: when a
\* page is folded in, the collection as it was before is a prefix of the
\* new one (no item held is replaced, moved or removed), and what is
\* appended is exactly the page's items whose ids were not yet held, in
\* page order; no other step of the walk changes the collection.
C23_AccumulatorAppendOnly ==
  [][ /\ (pc = "extend" /\ WalkStep) => collected' = collected \o page_games
      /\ (pc = "dedupe" /\ WalkStep) =>
           /\ NoRepeatedId(BeforePage)
           /\ collected' = BeforePage \o NewOfPage(BeforePage, page_games)
      /\ pc \notin {"extend", "dedupe"} => collected' = collected ]_vars

\* a page that repeated an id already held has been folded in
C23_Witness ==
  /\ pc = "while"
  /\ offset > 0
  /\ Len(collected) = 2
  /\ Len(ServedGames) = 3
  /\ NoRepeatedId(collected)
  /\ collected[1].name = "a"

\* C24 (under DedupeSpec): _dedupe is idempotent and keeps the order: for
\* every list s, _dedupe(s) is the subsequence of s made of the first
\* occurrence of each id, its ids are pairwise distinct,
\* _dedupe(_dedupe(s)) = _dedupe(s), and _dedupe(existing + new) starts
\* with existing whenever existing is free of duplicates.
C24_DedupeIdempotentStable ==
  [][ /\ pc = "games" =>
           /\ result' = FirstOccurrences(collected)
           /\ NoRepeatedId(result')
      /\ pc = "deduped" => result' = result
      /\ (pc = "again" /\ NoRepeatedId(result)) =>
           /\ Len(result') >= Len(result)
           /\ Take(result', Len(result)) = result ]_vars

\* existing = [1a, 2c] and new = [2d, 3e] gave [1a, 2c, 3e]
C24_Witness ==
  /\ pc = "appended"
  /\ collected = <<Game(1, "a"), Game(2, "c")>>
  /\ page_games = <<Game(2, "d"), Game(3, "e")>>
  /\ result = <<Game(1, "a"), Game(2, "c"), Game(3, "e")>>

\* C25: _cap_reached(current, cap) is (cap > 0 and current >= cap): for a
\* cap of 0 or less it is false for every count, so the cap never stops the
\* walk (the while test always goes on to a request) and the returned
\* collection is never trimmed.
C25_NonPositiveCapUnbounded ==
  [][ /\ \A cap \in (0 - 2)..(MaxCap + 1), current \in 0..(MaxItems + 2) :
           /\ _cap_reached(current, cap) <=> (cap > 0 /\ current >= cap)
           /\ cap <= 0 => ~_cap_reached(current, cap)
      /\ max_games <= 0 =>
           /\ ~_cap_reached(Len(collected), max_games)
           /\ (pc = "while" /\ WalkStep) => IssuesPageRequest
           /\ pc = "return" => result' = collected ]_vars

\* a walk with cap -1 went on to the empty page and returned all it held
C25_Witness ==
  /\ Completed
  /\ max_games < 0
  /\ Len(requests) = 3
  /\ Len(result) = 2
  /\ result = collected

\* P: the largest number of items in one page of the upstream
LargestPage ==
  LET sizes == {0} \cup UNION {{Len(_parse_games(upstream[c][k])) :
                                   k \in DOMAIN upstream[c]} :
                                c \in DOMAIN upstream}
  IN CHOOSE m \in sizes : \A n \in sizes : n <= m

\* C26: with a cap the accumulated collection never holds cap + P or more
\* items, P being the largest number of items in one page: what exceeds the
\* cap comes from one page, the page fetched while the count was below it.
C26_OvershootWithinOnePage ==
  max_games > 0 =>
    /\ Len(collected) < max_games + LargestPage \/ collected = <<>>
    /\ Len(collected) >= max_games =>
         Len(collected) - Len(page_games) < max_games

\* cap 1 and a first page of 2 items: 2 held, 1 returned
C26_Witness ==
  /\ Completed
  /\ max_games = 1
  /\ limit = 2
  /\ Len(collected) = 2
  /\ Len(requests) = 1
  /\ Len(result) = 1

\* C27: the category selection has a fixed precedence: when "all
\* categories" is asked together with an explicit list the list is ignored
\* and the categories come from the options endpoint alone; the explicit
\* list is used only when "all categories" is not asked.
C27_AllCategoriesTakesPrecedence ==
  /\ CategoriesResolved =>
       /\ requests # <<>>
       /\ requests[1] = OptionsRequest
       /\ {resolved_category_ids[i][1] : i \in DOMAIN resolved_category_ids}
            = WantedCategories
       /\ \A i \in DOMAIN requests :
            requests[i].kind = "games" =>
              /\ requests[i].cid # None
              /\ requests[i].cid[1] \in WantedCategories
  /\ (~all_categories /\ cat_idx > 0) =>
       /\ \A i \in DOMAIN requests : requests[i].kind # "options"
       /\ ExplicitSelection => resolved_category_ids = CallerOrder

\* "all categories" with the explicit list [5, 1]: the options named
\* category 1 only, and category 5 was not walked
C27_Witness ==
  /\ Completed
  /\ all_categories
  /\ category_ids = Some(<<5, 1>>)
  /\ options_body = Body(<<RawSub(JInt(1))>>)
  /\ VisitOrder = <<Some(1)>>
  /\ ReqsFor(Some(5)) = <<>>

\* C28: in direct-HTTP mode exactly one warm-up GET is issued per run,
\* before every API request, and its outcome is ignored: a failing warm-up
\* is not retried, does not count against the retry budget, and neither
\* fails nor shortens the run.
C28_OneWarmupIgnored ==
  [][ mode = "http" =>
        /\ pc = "start" => (warmups = 0 /\ requests = <<>>)
        /\ pc # "start" => (warmups = 1 /\ warmups' = 1)
        /\ (pc = "start" /\ WalkStep) =>
             /\ warmups' = 1
             /\ pc' \in {"attempt", "while"}
             /\ error' = NoError
             /\ tries' = 0
             /\ attempt' = 0
        /\ error.type # "PlaywrightError"
        /\ (Completed /\ upstream = RoundTripWorld /\ limit = 2) =>
             result = <<Game(1, "A"), Game(2, "B")>> ]_vars

\* the landing page was down and the run completed all the same
C28_Witness ==
  /\ mode = "http"
  /\ landing = "down"
  /\ Completed
  /\ warmups = 1
  /\ upstream = RoundTripWorld
  /\ result = <<Game(1, "A"), Game(2, "B")>>

\* this step is an attempt of the browser engine
BrowserAttempt == mode = "browser" /\ pc = "attempt" /\ tries' = tries + 1

\* C29: in browser-driven mode a response is parsed and returned only when
\* its status is exactly 200 and its text is not empty; any other status or
\* an empty text is never given to the walker as a page and counts as one
\* failed attempt of the retry engine.
C29_BrowserRequires200Text ==
  [][ BrowserAttempt =>
        /\ pc' \in {"parse", "resolve"} =>
             /\ last_reply'.status = 200
             /\ last_reply'.text = "json"
        /\ (last_reply'.net = "ok"
              /\ (last_reply'.status # 200 \/ last_reply'.text = "empty")) =>
             /\ pc' \in {"backoff", "attempt", "failed"}
             /\ last_err' = "status_or_empty"
             /\ api_json' = api_json
             /\ served' = served
             /\ page_games' = page_games ]_vars

\* a 201 with a JSON body was counted as a failed attempt
C29_Witness ==
  /\ mode = "browser"
  /\ pc = "backoff"
  /\ caller = "games"
  /\ last_reply = Reply("ok", 201, "json")
  /\ last_err = "status_or_empty"
  /\ tries = 1

\* C30: with an inter-page delay > 0 the walker suspends for exactly that
\* time once after each non-empty page has been accumulated, before the
\* next iteration; it takes no delay after an empty page or before the
\* first request of a category, and none at all with a delay <= 0.
C30_InterPageDelay ==
  [][ /\ (pc = "dedupe" /\ WalkStep) => ((pc' = "sleep") <=> (sleep_s > 0))
      /\ (pc' = "sleep" /\ pc # "sleep") =>
           /\ pc = "dedupe"
           /\ page_games # <<>>
           /\ offset' > 0
      /\ (pc = "sleep" /\ WalkStep) =>
           /\ slept' = Append(slept, sleep_s)
           /\ pc' = "while"
           /\ requests' = requests
      /\ pc # "sleep" => slept' = slept
      /\ sleep_s <= 0 => (slept = <<>> /\ pc # "sleep")
      /\ Len(slept) <= Len(requests) ]_vars

\* the round trip with a delay of 0.5 s: one delay, after the first page
C30_Witness ==
  /\ Completed
  /\ sleep_s = 2
  /\ slept = <<2>>
  /\ Len(requests) = 2
  /\ Len(result) = 2

\* C31: a run never mutates its configuration: at every step and at the
\* return the caller's category id list, brand id list, limit, cap, retry
\* count and backoff base have the values they had at the call, and the
\* list of categories the walk iterates over (the caller's own list when
\* ids are explicit) is not changed while it is walked.
C31_ConfigurationNeverMutated ==
  [][ /\ category_ids' = category_ids
      /\ brand_ids' = brand_ids
      /\ limit' = limit
      /\ max_games' = max_games
      /\ retries' = retries
      /\ backoff_s' = backoff_s
      /\ cat_idx > 0 => resolved_category_ids' = resolved_category_ids
      /\ (ExplicitSelection /\ cat_idx > 0) =>
           resolved_category_ids = CallerOrder ]_vars

\* a run with an empty category list and the brands [3, 7] went to its end,
\* and both lists are as they were given
C31_Witness ==
  /\ Completed
  /\ category_ids = Some(<<>>)
  /\ brand_ids = Some(<<3, 7>>)
  /\ requests # <<>>
  /\ requests[1].query.brandIds = <<"3", ",", "7">>
  /\ Len(result) = 2

\* C32: the collection returned after an interrupt is duplicate-free,
\* whatever statement of the walk the interrupt lands on (in particular
\* between collected.extend(page_games) and collected = _dedupe(collected)).
C32_InterruptedResultDuplicateFree ==
  (Returned /\ interrupted) => NoRepeatedId(result)

\* this step delivers the interrupt inside the retry engine
InterruptInEngine ==
  ~interrupted /\ interrupted' /\ pc \in {"attempt", "backoff"}

\* C33: the retry engine does not absorb an interrupt: an interrupt raised
\* during an attempt or during a backoff wait is not recorded as a failed
\* attempt, triggers no further attempt and no further wait, and leaves the
\* engine as it came (the walk's handler gets it in scrape_games_http).
C33_EngineDoesNotAbsorbInterrupt ==
  [][ /\ InterruptInEngine =>
           /\ tries' = tries
           /\ attempt' = attempt
           /\ last_err' = last_err
           /\ waited' = waited
           /\ api_json' = api_json
           /\ requests' = requests
           /\ pc' \in {"return", "failed"}
           /\ pc' = "failed" => error' = Raised("KeyboardInterrupt", "")
           /\ pc' = "return" => (InTry /\ error' = NoError)
           /\ (mode = "http" /\ caller = "games") => pc' = "return"
      /\ interrupted =>
           /\ tries' = tries
           /\ waited' = waited
           /\ pc' \notin {"attempt", "backoff"} ]_vars

\* the interrupt came during the wait after the first failed attempt: one
\* attempt and no wait are on record, and the walk returned
C33_Witness ==
  /\ mode = "http"
  /\ interrupted
  /\ pc = "return"
  /\ caller = "games"
  /\ retries = 1
  /\ tries = 1
  /\ last_err = "URLError"
  /\ waited = <<>>
  /\ error = NoError

\* this step is a successful attempt of the engine
SuccessfulAttempt == pc = "attempt" /\ WalkStep /\ pc' \in {"parse", "resolve"}

\* C34: the retry engine stops at the first successful attempt: if attempt
\* i (1 <= i <= retries + 1) is the first to succeed, exactly i attempts
\* and exactly i - 1 waits are made, the value of attempt i is returned and
\* earlier failures leave no trace in the result.
C34_StopsAtFirstSuccess ==
  [][ /\ SuccessfulAttempt =>
           /\ tries' = tries + 1
           /\ tries' = attempt + 1
           /\ tries' <= retries + 1
           /\ waited' = waited
           /\ Len(waited') = tries' - 1
           /\ Accepts(mode, last_reply')
           /\ api_json' = IF caller = "options" THEN options_body
                          ELSE ListingBody(resolved_category_ids[cat_idx],
                                           offset, limit)
           /\ pc' = IF caller = "options" THEN "resolve" ELSE "parse"
           /\ error' = NoError
      /\ pc \in {"parse", "resolve"} => pc' \notin {"attempt", "backoff"} ]_vars

\* the third attempt was the first to succeed, after two waits
C34_Witness ==
  /\ pc = "parse"
  /\ ~interrupted
  /\ retries = 3
  /\ backoff_s = 1
  /\ tries = 3
  /\ waited = <<1, 2>>
  /\ requests # <<>>
  /\ api_json = ListingBody(Some(1), 0, limit)
  /\ Len(api_json.items) = limit

\* a page that is not empty and holds only ids that the list "held" holds
SeenPage(page, held) ==
  /\ page # <<>>
  /\ \A i \in DOMAIN page : \E j \in DOMAIN held : held[j].id = page[i].id

\* C35: a page of only already-seen ids is non-empty and does not end its
\* category: the accumulated collection and its count stay unchanged, the
\* offset still advances by limit, and (cap permitting) the next page of
\* the same category is requested.
C35_SeenPageDoesNotEndCategory ==
  [][ /\ (pc = "parse" /\ WalkStep /\ ~ParseRaises(api_json)
            /\ SeenPage(_parse_games(api_json), collected)) =>
           /\ pc' = "extend"
           /\ page_games' = _parse_games(api_json)
           /\ cat_idx' = cat_idx
           /\ offset' = offset
      /\ (pc = "dedupe" /\ WalkStep /\ SeenPage(page_games, BeforePage)) =>
           /\ collected' = BeforePage
           /\ Len(collected') = Len(collected) - Len(page_games)
           /\ offset' = offset + limit
           /\ cat_idx' = cat_idx
           /\ pc' \in {"while", "sleep"}
      /\ (pc = "while" /\ WalkStep
            /\ ~_cap_reached(Len(collected), max_games)
            /\ Len(requests) < MaxRequests) =>
           /\ requests' = Append(requests,
                GamesRequest(resolved_category_ids[cat_idx], offset, limit))
           /\ cat_idx' = cat_idx ]_vars

\* the second page carried the id of the first one again, under another
\* name: the collection is as it was and the offset is 2 * limit
C35_Witness ==
  /\ pc = "while"
  /\ ~interrupted
  /\ cat_idx = 1
  /\ limit = 1
  /\ offset = 2
  /\ Len(collected) = 1
  /\ Len(page_games) = 1
  /\ page_games[1].id = collected[1].id
  /\ page_games[1].name # collected[1].name
  /\ Len(requests) = 2

\* C36: every successfully fetched listing body either parses to a
\* (possibly empty) list of items or ends the category as an empty page: a
\* well-formed JSON body without a "games" list (null, an object lacking
\* "games", or a non-object value such as an array or a number) never makes
\* the walk raise an error and is never retried.
C36_EveryBodyParsesOrEnds ==
  [][ (pc = "parse" /\ WalkStep) =>
        /\ pc' # "failed"
        /\ error' = NoError
        /\ tries' = tries
        /\ requests' = requests
        /\ (api_json.kind # "object" \/ ~api_json.is_list) =>
             /\ page_games' = <<>>
             /\ pc' \in {"while", "return"} ]_vars

\* "all categories" was asked and the options name no valid category id
NoValidCategory == all_categories /\ WantedCategories = {}

\* C37: when "all categories" is requested and the options fetch succeeds
\* but yields no valid category id (empty or missing "subcategories", only
\* sentinel or invalid ids, or a non-object body), the run issues no
\* listing page request at all and returns an empty collection without
\* error.
C37_NoCategoryNoWalk ==
  NoValidCategory =>
    /\ error.type \notin {"AttributeError", "TypeError"}
    /\ \A i \in DOMAIN requests : requests[i].kind = "options"
    /\ Len(requests) <= 1
    /\ pc \notin {"while", "parse", "extend", "dedupe", "sleep"}
    /\ pc \in {"return", "done", "written"} =>
         /\ resolved_category_ids = <<>>
         /\ collected = <<>>
         /\ error = NoError
    /\ Returned => result = <<>>

\* the options named the reserved id 998 and the id "x" only: one request,
\* the options request, and an empty collection
C37_Witness ==
  /\ Completed
  /\ all_categories
  /\ options_body = Body(<<RawSub(JInt(Sentinel998)), RawSub(JStr(<<"x">>))>>)
  /\ tries = 1
  /\ Len(requests) = 1
  /\ result = <<>>

\* an explicit, empty list of category ids, and no "all categories"
EmptySelection == ~all_categories /\ category_ids = Some(<<>>)

\* C38: an explicitly supplied but empty category id list is treated like
\* no category selection: the run performs exactly one unfiltered walk
\* rather than zero walks.
C38_EmptyListIsUnfilteredWalk ==
  (EmptySelection /\ pc \notin {"start", "failed"}) =>
    /\ resolved_category_ids = <<None>>
    /\ cat_idx = 1
    /\ \A i \in DOMAIN requests :
         requests[i].kind = "games" /\ requests[i].cid = None
    /\ Len(VisitOrder) <= 1
    /\ Completed =>
         /\ VisitOrder = <<None>>
         /\ upstream = SelectionWorld =>
              result = <<Game(1, "a"), Game(2, "b")>>

\* the empty list gave the unfiltered walk: both games of the unfiltered
\* listing, after three page requests
C38_Witness ==
  /\ Completed
  /\ category_ids = Some(<<>>)
  /\ VisitOrder = <<None>>
  /\ Len(requests) = 3
  /\ result = <<Game(1, "a"), Game(2, "b")>>

\* C39 (under LauncherSpec): once a demo link for a game id has been
\* resolved and stored, every request for that id that starts afterwards
\* is answered with the link the cache holds, without an upstream call,
\* under any interleaving of the handler threads: an entry is never removed
\* and only a successful resolution writes one; a failed resolution stores
\* nothing, so a later request for the id resolves again.
C39_StoredLinkServedWithoutUpstream ==
  [][ /\ \A t \in Threads :
           LET h == handler[t]
               n == handler'[t]
               g == h.request.game_id
           IN /\ h.stored_at_start =>
                   /\ h.calls = 0
                   /\ h.pc \in {"lookup", "read", "idle"}
                   /\ h.pc = "idle" =>
                        /\ h.response.status = 302
                        /\ h.response.link \in Links
              /\ (h.pc = "lookup" /\ n # h) =>
                   n.pc = IF cache[g] # None THEN "read" ELSE "resolve"
              /\ (h.pc = "read" /\ n # h) =>
                   /\ cache[g] # None
                   /\ n.response = Response(302, cache[g][1], FALSE, 0)
                   /\ n.calls = h.calls
              /\ (h.pc = "resolve" /\ n.pc = "idle") =>
                   /\ cache' = cache
                   /\ n.response.status = 500
              /\ (h.pc = "store" /\ n # h) =>
                   cache' = [cache EXCEPT ![g] = Some(h.demo_url)]
      /\ \A g \in GameIds : cache[g] # None => cache'[g] # None
      /\ cache' # cache =>
           \E t \in Threads : handler[t].pc = "store" /\ handler'[t].pc = "idle"
    ]_vars

\* one thread resolved game 7 and stored the link u1; the other, started
\* afterwards, answered with u1 and made no upstream call
C39_Witness ==
  /\ cache[7] = Some("u1")
  /\ handler["t1"].pc = "idle"
  /\ handler["t1"].request.game_id = 7
  /\ handler["t1"].calls = 1
  /\ handler["t1"].response = Response(302, "u1", FALSE, 0)
  /\ handler["t2"].pc = "idle"
  /\ handler["t2"].request.game_id = 7
  /\ handler["t2"].stored_at_start
  /\ handler["t2"].calls = 0
  /\ handler["t2"].response = Response(302, "u1", FALSE, 0)

\* the body is not valid JSON
NotJson(body) == body.kind = "garbage"

\* the body is an object whose "balance" is not a JSON number
NotNumeric(body) ==
  body.kind = "object" /\ body.has /\ body.value.t \notin {"int", "float"}

\* the body is an object whose "balance" float() does not take
NotFloatable(body) ==
  body.kind = "object" /\ body.has /\ float(body.value) = None

\* C40 (under LauncherSpec): POST /api/wallet/sync with a body that is not
\* valid JSON or whose balance is not numeric answers 400 with success =
\* false and leaves the wallet balance unchanged; a valid sync sets the
\* balance to the posted value, and every later GET /api/wallet/balance
\* returns the value of the most recent successful init or sync.
C40_WalletSyncValidated ==
  [][ /\ \A t \in Threads :
           LET h == handler[t]
               n == handler'[t]
               body == h.request.body
           IN /\ (h.pc = "sync" /\ n # h /\ (NotJson(body) \/ NotNumeric(body))) =>
                   /\ n.pc = "idle"
                   /\ n.response = Response(400, "", FALSE, 0)
                   /\ wallet' = wallet
              /\ (h.pc = "sync_update" /\ n # h /\ body.has) =>
                   wallet'.balance = float(body.value)[1]
              /\ (h.pc = "balance" /\ n # h) =>
                   n.response = Response(200, "", FALSE, last_update)
      /\ wallet.balance = last_update ]_vars

\* what the code does: the 400 is for what json.loads or float() rejects
SyncRejectsWhatFloatRejects ==
  [][ /\ \A t \in Threads :
           LET h == handler[t]
               n == handler'[t]
               body == h.request.body
           IN /\ (h.pc = "sync" /\ n # h
                    /\ (body.kind # "object" \/ NotFloatable(body))) =>
                   /\ n.pc = "idle"
                   /\ n.response = Response(400, "", FALSE, 0)
                   /\ wallet' = wallet
              /\ (h.pc = "sync_update" /\ n # h /\ body.has) =>
                   wallet'.balance = float(body.value)[1]
              /\ (h.pc = "balance" /\ n # h) =>
                   n.response = Response(200, "", FALSE, last_update)
      /\ wallet.balance = last_update ]_vars

=============================================================================
